---- MODULE Spec2Model ----
(***************************************************************************)
(* A model of three safety-critical subsystems of the tb-discover agent:   *)
(*   - the signing verifier and its nonce store   (package signing)        *)
(*   - the hash-chained audit log                 (package audit)          *)
(*   - the circuit breaker and auto-remediator    (package remediation)    *)
(* Each subsystem has its own specification (SpecVerifier, SpecAudit,      *)
(* SpecBreaker for the breaker's methods called directly, SpecRemediation  *)
(* for Remediate); the variables of the other subsystems stay at their     *)
(* initial values.                                                         *)
(***************************************************************************)
EXTENDS Integers, Sequences, FiniteSets, TLC

VARIABLES
    clock,        \* signing: the wall clock, in ticks of 1/TicksPerSec second
    nonces,       \* signing: NonceStore.nonces, nonce -> time it was first seen
    lastGC,       \* signing: NonceStore.lastGC
    last,         \* signing: the outcome of the Verify call that just returned, until taken
    acceptLog,    \* signing (history): nonce -> the acceptances of that nonce
    rejectLog,    \* signing (history): nonce -> the time Verify last rejected its signature
    file,         \* audit: the lines of the audit log file, in file order
    prevHash,     \* audit: AuditLogger.prevHash
    isOpen,       \* audit: the logger's file handle is open
    mu,           \* audit: the goroutine holding AuditLogger.mu (0: nobody)
    lpc,          \* audit: where each goroutine's Log call stands
    pending,      \* audit: the line each Log call is about to write
    logCalls,     \* audit (history): Log calls made
    logErrors,    \* audit (history): Log calls that returned an error
    loggersMade,  \* audit (history): NewAuditLogger calls made on the path
    wallTime,     \* remediation: the wall clock, in ticks of 1/TicksPerHour hour
    maxPerHour,   \* remediation: CircuitBreaker.maxPerHour
    cooldown,     \* remediation: CircuitBreaker.cooldown, in ticks
    recentTimes,  \* remediation: CircuitBreaker.recentTimes
    resourceCooldowns, \* remediation: CircuitBreaker.resourceCooldowns, key -> time
    recordLog,    \* remediation (history): the Record calls made, with their times
    obs,          \* remediation: what the last IsOpen or IsOnCooldown returned, until taken
    dryRun,       \* remediation: Remediator.dryRun
    cluster,      \* remediation: the objects the cluster holds
    rpc,          \* remediation: where the Remediate call stands
    left,         \* remediation: insights of the list not yet visited by the loop
    cur,          \* remediation: the insight the loop visited last
    skipped,      \* remediation (history): insights the loop passed over with continue
    results,      \* remediation: the results of the Remediate call
    warned,       \* remediation: the call logged "circuit breaker open, skipping ..."
    apiLog,       \* remediation (history): the calls made to the cluster API
    calls,        \* remediation (history): Remediate calls made
    visits,       \* remediation (history): insights handed to Remediate so far
    startedAt,    \* remediation (history): when the Remediate call at hand began
    lastFingerprints, \* reporter: Reporter.lastFingerprints
    reports,      \* reporter (history): the Report calls made, with what each did
    permissions,  \* agent: Agent.permissions, the permission set of the identity
    maxSessions,  \* agent: Agent.maxSessions
    sessions,     \* agent: the session map, session ID -> time of last activity
    muxNow,       \* agent: the wall clock, in ticks of the idle timeout
    muxEvent,     \* agent (history): the message or event handled last, and its outcome
    configured,   \* agent (history): the Config.MaxSessions handed to New
    vtarget,      \* protocol: the TerminalTarget handed to ValidateTerminalTarget last
    verr,         \* protocol: the error that call returned
    wire,         \* signing: the bytes of the message on its way to the agent
    sent,         \* signing (history): what Sign was called with, and what became of its output
    vout,         \* signing: what Verify returned for the message, until taken
    upstreams,    \* upload: MultiClient.upstreams, by name
    upc,          \* upload: where the goroutine of each upstream stands
    accepted,     \* upload (history): the upstreams whose Client.Upload returned no error
    ch,           \* upload: the results in the channel ch
    arrivals,     \* upload (history): the upstreams in the order their results were received
    firstResp,    \* upload: firstResp of the Upload call
    errors,       \* upload: errors of the Upload call
    ret,          \* upload: what the Upload call returned
    callerReq,    \* upload: the EdgeIngestRequest the caller handed to Upload
    baseBody,     \* upload: baseBody of the Upload call
    upstreamReq,  \* upload: upstreamReq of the goroutine of each upstream
    attempts,     \* upload (history): the Client.Upload calls made, with their requests
    analyzer,     \* insights: the analyzer whose Analyze ran last
    found,        \* insights: the insights that call returned
    snapshot,     \* engine: the conditions the cluster shows during the sweep
    nsItems,      \* engine: nsList.Items, the namespaces in the order listed
    epc,          \* engine: where the Engine.Analyze call stands
    pos,          \* engine: the namespace and the analyzer the loops are at
    allInsights,  \* engine: allInsights of the call, then what it returned
    runs,         \* engine (history): the Analyze calls made on analyzers, with their outcome
    replicas,     \* commands: spec.replicas of the scale of the deployment in the cluster
    scaleCalls,   \* commands (history): the calls Execute made on the deployment's scale
    cmdParams,    \* commands: the value of Parameters["replicas"] of the command at hand
    cmdResult,    \* commands: the CommandResult Execute returned, until taken
    gpc,          \* concurrent remediation: goroutine -> where its Remediate call stands
    glist,        \* concurrent remediation: goroutine -> the insights its loop has yet to visit
    gres          \* concurrent remediation: goroutine -> the result execute returned to it

verifierVars == <<clock, nonces, lastGC, last, acceptLog, rejectLog>>

auditVars == <<file, prevHash, isOpen, mu, lpc, pending, logCalls, logErrors, loggersMade>>

remediationVars ==
    <<wallTime, maxPerHour, cooldown, recentTimes, resourceCooldowns, recordLog, obs,
      dryRun, cluster, rpc, left, cur, skipped, results, warned, apiLog, calls, visits, startedAt>>

reporterVars == <<lastFingerprints, reports>>

muxVars == <<permissions, maxSessions, sessions, muxNow, muxEvent, configured>>

coreVars == <<verifierVars, auditVars, remediationVars>>

validatorVars == <<vtarget, verr>>

codecVars == <<wire, sent, vout>>

uploadVars ==
    <<upstreams, upc, accepted, ch, arrivals, firstResp, errors, ret,
      callerReq, baseBody, upstreamReq, attempts>>

insightVars == <<analyzer, found>>

engineVars == <<snapshot, nsItems, epc, pos, allInsights, runs>>

\* The variables of the subsystems modelled last.
executorVars == <<replicas, scaleCalls, cmdParams, cmdResult>>

concurrentVars == <<gpc, glist, gres>>

laterVars == <<engineVars, executorVars, concurrentVars>>

\* The variables of the subsystems modelled after the first three.
otherVars == <<reporterVars, muxVars, validatorVars, codecVars, uploadVars, insightVars, laterVars>>

\* What the actions of one subsystem leave alone.
allButReporter ==
    <<coreVars, muxVars, validatorVars, codecVars, uploadVars, insightVars, laterVars>>

allButMux ==
    <<coreVars, reporterVars, validatorVars, codecVars, uploadVars, insightVars, laterVars>>

allButValidator ==
    <<coreVars, reporterVars, muxVars, codecVars, uploadVars, insightVars, laterVars>>

\* Sign and Verify on wire bytes share the nonce store of the verifier.
allButCodec ==
    <<auditVars, remediationVars, reporterVars, muxVars, validatorVars, uploadVars, insightVars, laterVars>>

allButUpload ==
    <<coreVars, reporterVars, muxVars, validatorVars, codecVars, insightVars, laterVars>>

allButInsights ==
    <<coreVars, reporterVars, muxVars, validatorVars, codecVars, uploadVars, laterVars>>

\* The variables of every subsystem modelled before the last ones.
earlierVars ==
    <<coreVars, reporterVars, muxVars, validatorVars, codecVars, uploadVars, insightVars>>

allButEngine == <<earlierVars, executorVars, concurrentVars>>

allButExecutor == <<earlierVars, engineVars, concurrentVars>>

\* What the concurrent Remediate calls leave alone, the breaker and the cluster aside.
allButConcurrent ==
    <<verifierVars, auditVars, reporterVars, muxVars, validatorVars, codecVars, uploadVars,
      insightVars, engineVars, executorVars>>

vars == <<verifierVars, auditVars, remediationVars, otherVars>>

\* NewReporter has run and Report has not been called.
ReporterIdle ==
    /\ lastFingerprints = ""
    /\ reports = <<>>

None == "none"

NoEvent == [op |-> None, id |-> None, result |-> None]

\* No agent has been constructed.
MuxIdle ==
    /\ permissions = {}
    /\ maxSessions = 0
    /\ sessions = [id \in {} |-> 0]
    /\ muxNow = 0
    /\ muxEvent = NoEvent
    /\ configured = 0

\* A string is the sequence of its characters; a nil *TerminalTarget has nil set.
NilTarget ==
    [nil |-> TRUE, Type |-> <<>>, Shell |-> <<>>, Runtime |-> <<>>,
     Container |-> <<>>, Pod |-> <<>>, Namespace |-> <<>>, Name |-> <<>>]

\* A nil error.
NoError == [msg |-> "", field |-> ""]

\* No call of ValidateTerminalTarget has returned.
NotCalled == [msg |-> None, field |-> None]

\* ValidateTerminalTarget is not being called.
ValidatorIdle ==
    /\ vtarget = NilTarget
    /\ verr = NotCalled

\* No message has been signed.
NoSent ==
    [key |-> "", command |-> <<>>, timestamp |-> 0, nonce |-> "", user_id |-> "",
     origin |-> "", bytes |-> <<>>, changed |-> None]

\* No Verify call on wire bytes has returned.
NoOut == [valid |-> FALSE, reason |-> None, command |-> <<>>]

CodecIdle ==
    /\ wire = <<>>
    /\ sent = NoSent
    /\ vout = NoOut

\* The zero value of EdgeIngestRequest.
NoRequest == [AgentToken |-> "", Cluster |-> "", Meta |-> ""]

\* The Upload call has not returned.
NoReturn == [resp |-> None, err |-> None]

\* A MultiClient without upstreams, Upload not called.
UploadIdle ==
    /\ upstreams = <<>>
    /\ upc = [u \in {} |-> None]
    /\ accepted = {}
    /\ ch = <<>>
    /\ arrivals = <<>>
    /\ firstResp = None
    /\ errors = <<>>
    /\ ret = NoReturn
    /\ callerReq = NoRequest
    /\ baseBody = <<>>
    /\ upstreamReq = [u \in {} |-> NoRequest]
    /\ attempts = <<>>

\* No analyzer has run.
InsightsIdle ==
    /\ analyzer = None
    /\ found = {}

\* Engine.Analyze has not been called and the cluster shows no condition.
EngineIdle ==
    /\ snapshot = {}
    /\ nsItems = <<>>
    /\ epc = "idle"
    /\ pos = <<1, 1>>
    /\ allInsights = <<>>
    /\ runs = {}

\* A replicas parameter that is not there.
NoParam == [kind |-> "missing", halves |-> 0]

\* Execute has not returned.
NoCommandResult == [Success |-> FALSE, Message |-> None, new_replicas |-> 0]

\* NewExecutor has run, no command was executed.
ExecutorIdle ==
    /\ replicas = 1
    /\ scaleCalls = <<>>
    /\ cmdParams = NoParam
    /\ cmdResult = NoCommandResult

\* Number of goroutines that call Remediate on remediators sharing the breaker.
NumGoroutines == 2

Goroutines == 1..NumGoroutines

\* execute has returned nothing yet.
NoOutcome == [Success |-> FALSE]

\* No goroutine is in a Remediate call.
ConcurrentIdle ==
    /\ gpc = [g \in Goroutines |-> "idle"]
    /\ glist = [g \in Goroutines |-> <<>>]
    /\ gres = [g \in Goroutines |-> NoOutcome]

LaterIdle == EngineIdle /\ ExecutorIdle /\ ConcurrentIdle

OthersIdle ==
    ReporterIdle /\ MuxIdle /\ ValidatorIdle /\ CodecIdle /\ UploadIdle /\ InsightsIdle /\ LaterIdle

NoTime == 0 - 1

(***************************************************************************)
(*                  CIRCUIT BREAKER AND AUTO-REMEDIATOR                    *)
(*                                                                         *)
(* Time is counted in ticks, TicksPerHour of them in an hour, so that the  *)
(* strict and non-strict comparisons of pruneOld and IsOnCooldown can be   *)
(* told apart at the boundary.                                             *)
(***************************************************************************)
TicksPerHour == 2

MaxRate == 2

MaxRecords == 3

MaxCalls == 2

Hour == TicksPerHour

\* A breaker's cooldown: a tick, or as long as the window.
Cooldowns == {1, Hour}

\* A list is long enough to trip the breaker and go on.
MaxInsights == MaxRate + 1

\* The lists of all the Remediate calls together hold at most MaxVisits insights.
MaxVisits == MaxInsights

\* An API call returns within MaxLatency ticks.
MaxLatency == 1

\* The clock stops an hour and a tick after the first remediation, when the
\* records of that remediation's tick have aged out.
MaxNow == Hour + 1

\* resourceCooldowns of a new breaker: make(map[string]time.Time).
EmptyMap == [k \in {} |-> 0]

\* The loop of Remediate has not visited an insight yet.
NoInsight ==
    [Fingerprint |-> "", AutoRemediable |-> FALSE, ProposedAction |-> "",
     TargetKind |-> "", TargetNS |-> "", TargetName |-> "", Title |-> ""]

NoObs == [op |-> None, triple |-> <<>>, ret |-> FALSE, at |-> NoTime]

\* NewCircuitBreaker and NewRemediator have run and no call has been made yet;
\* maxPerHour, cooldown and dryRun are set by the Init that conjoins this.
RemediationIdle ==
    /\ wallTime = 0
    /\ recentTimes = <<>>
    /\ resourceCooldowns = EmptyMap
    /\ recordLog = <<>>
    /\ obs = NoObs
    /\ cluster = {<<"pods", "prod", "db">>, <<"pods", "prod", "api">>,
                  <<"pods", "prod", "web">>,
                  <<"persistentvolumeclaims", "prod", "db">>}
    /\ rpc = "idle"
    /\ left = 0
    /\ cur = NoInsight
    /\ skipped = 0
    /\ results = <<>>
    /\ warned = FALSE
    /\ apiLog = <<>>
    /\ calls = 0
    /\ visits = 0
    /\ startedAt = 0

\* The breaker and the remediator of the other specifications: never used.
RemediationUnused ==
    /\ RemediationIdle
    /\ maxPerHour = 0
    /\ cooldown = 0
    /\ dryRun = FALSE

\* fmt.Sprintf("%s%s%s", ...): a key without separators.
resourceKey_NoSeparator(kind, namespace, name) == kind \o namespace \o name

\* fmt.Sprintf("%s/%s/%s", kind, namespace, name)
resourceKey(kind, namespace, name) == kind \o "/" \o namespace \o "/" \o name

RECURSIVE pruneOld_Inclusive(_, _)
\* The loop with !After(cutoff): it also drops the entry that is exactly one
\* hour old.
pruneOld_Inclusive(times, t) ==
    IF times # <<>> /\ Head(times) <= t - Hour
    THEN pruneOld_Inclusive(Tail(times), t)
    ELSE times

RECURSIVE pruneOld(_, _)
\* pruneOld: drops the leading entries that are Before(cutoff), cutoff being
\* t minus one hour; times is recentTimes and t the reading of time.Now().
pruneOld(times, t) ==
    IF times # <<>> /\ Head(times) < t - Hour
    THEN pruneOld(Tail(times), t)
    ELSE times

\* len(cb.recentTimes) > cb.maxPerHour
CircuitOpen_Strict(times) == Len(times) > maxPerHour

\* IsOpen's return value, computed on the pruned window.
CircuitOpen(times) == Len(times) >= maxPerHour

\* IsOnCooldown's return value at time t.
OnCooldown(kind, namespace, name, t) ==
    LET key == resourceKey(kind, namespace, name)
    IN  /\ key \in DOMAIN resourceCooldowns
        /\ t - resourceCooldowns[key] < cooldown

\* The map after Record stored t under the resource's key.
CooldownsAfterRecord(kind, namespace, name, t) ==
    LET key == resourceKey(kind, namespace, name)
    IN  [k \in DOMAIN resourceCooldowns \cup {key} |->
            IF k = key THEN t ELSE resourceCooldowns[k]]

\* The resources the breaker's methods are called with: Kubernetes kinds,
\* namespaces (empty for a cluster-scoped kind) and object names.
ResourceTriples ==
    {<<"Pod", "prod", "db">>, <<"Pod", "pro", "ddb">>, <<"Pod", "prod", "api">>,
     <<"PersistentVolumeClaim", "prod", "db">>, <<"Node", "", "db">>}

\* The resources that are remediated and recorded.
RecordedTriples ==
    {<<"Pod", "prod", "db">>, <<"Pod", "prod", "api">>,
     <<"PersistentVolumeClaim", "prod", "db">>}

remediatorVars == <<dryRun, cluster, rpc, left, cur, skipped, results, warned, apiLog, calls, visits, startedAt>>

\* ---- the breaker's methods, called directly ----

\* CircuitBreaker.IsOpen
IsOpen ==
    /\ obs = NoObs
    /\ recentTimes' = pruneOld(recentTimes, wallTime)
    /\ obs' = [op |-> "IsOpen", triple |-> <<>>, ret |-> CircuitOpen(recentTimes'), at |-> wallTime]
    /\ UNCHANGED <<wallTime, maxPerHour, cooldown, resourceCooldowns, recordLog, remediatorVars,
                   verifierVars, auditVars, otherVars>>

\* CircuitBreaker.IsOnCooldown
IsOnCooldown(kind, namespace, name) ==
    /\ obs = NoObs
    /\ obs' = [op |-> "IsOnCooldown", triple |-> <<kind, namespace, name>>,
               ret |-> OnCooldown(kind, namespace, name, wallTime), at |-> wallTime]
    /\ UNCHANGED <<wallTime, maxPerHour, cooldown, recentTimes, resourceCooldowns, recordLog, remediatorVars,
                   verifierVars, auditVars, otherVars>>

\* CircuitBreaker.Record
Record(kind, namespace, name) ==
    /\ obs = NoObs
    /\ Len(recordLog) < MaxRecords
    /\ recentTimes' = Append(recentTimes, wallTime)
    /\ resourceCooldowns' = CooldownsAfterRecord(kind, namespace, name, wallTime)
    /\ recordLog' = Append(recordLog, [triple |-> <<kind, namespace, name>>, at |-> wallTime])
    /\ UNCHANGED <<wallTime, maxPerHour, cooldown, obs, remediatorVars,
                   verifierVars, auditVars, otherVars>>

\* The caller has looked at the value IsOpen or IsOnCooldown returned.
TakeAnswer ==
    /\ obs # NoObs
    /\ obs' = NoObs
    /\ UNCHANGED <<wallTime, maxPerHour, cooldown, recentTimes, resourceCooldowns, recordLog, remediatorVars,
                   verifierVars, auditVars, otherVars>>

\* Time passes between two calls (the time a Remediate call takes is the
\* latency of its API calls). The clock is counted from the first remediation:
\* until then the breaker holds no time to compare it with.
Tick ==
    /\ obs = NoObs
    /\ rpc = "idle"
    /\ recordLog # <<>> \/ apiLog # <<>>
    /\ wallTime < MaxNow
    /\ wallTime' = wallTime + 1
    /\ UNCHANGED <<maxPerHour, cooldown, recentTimes, resourceCooldowns, recordLog, obs, remediatorVars,
                   verifierVars, auditVars, otherVars>>

NextBreaker ==
    \/ IsOpen
    \/ \E r \in ResourceTriples : IsOnCooldown(r[1], r[2], r[3])
    \/ \E r \in RecordedTriples : Record(r[1], r[2], r[3])
    \/ TakeAnswer
    \/ Tick

\* ---- the remediator ----

\* reporter.go: the allowlist of actions, which is also the set of cases of
\* the switch in execute.
AllowedActions == {"delete_pod", "force_delete_pod", "delete_pvc"}

\* insights.ClusterInsight, as far as Remediate reads it. Fingerprints are
\* unique to an insight.
Insight(fp, auto, action, kind, name) ==
    [Fingerprint |-> fp, AutoRemediable |-> auto, ProposedAction |-> action,
     TargetKind |-> kind, TargetNS |-> "prod", TargetName |-> name,
     Title |-> "insight " \o fp]

\* What the analyzers hand to Remediate: three stale pods, a stale volume
\* claim, an insight on a pod stuck terminating that is not marked
\* auto-remediable, and one that proposes an action outside the allowlist.
\* A list may name an insight more than once.
Insights ==
    {Insight("fp1", TRUE, "delete_pod", "Pod", "db"),
     Insight("fp2", TRUE, "delete_pod", "Pod", "api"),
     Insight("fp3", TRUE, "delete_pod", "Pod", "web"),
     Insight("fp4", TRUE, "delete_pvc", "PersistentVolumeClaim", "db"),
     Insight("fp5", FALSE, "force_delete_pod", "Pod", "api"),
     Insight("fp6", TRUE, "restart_deployment", "Deployment", "web")}

\* Only the auto_remediable flag is looked at.
Eligible_NoAllowlist(insight) == insight.AutoRemediable

\* The two filters at the head of the loop of Remediate.
Eligible(insight) ==
    insight.AutoRemediable /\ insight.ProposedAction \in AllowedActions

\* The collection the action's Delete call addresses.
ApiResource(action) ==
    IF action = "delete_pvc" THEN "persistentvolumeclaims" ELSE "pods"

\* execute without the dry-run gate: the Delete call is made in any case.
execute_IgnoresDryRun(insight, apiFails) ==
    LET action == insight.ProposedAction
        object == <<ApiResource(action), insight.TargetNS, insight.TargetName>>
        base   == [Action |-> action,
                   TargetKind |-> insight.TargetKind,
                   TargetNamespace |-> insight.TargetNS,
                   TargetName |-> insight.TargetName,
                   InsightFingerprint |-> insight.Fingerprint,
                   Reason |-> insight.Title,
                   DryRun |-> dryRun,
                   Success |-> FALSE,
                   Message |-> ""]
    IN  IF apiFails \/ object \notin cluster
        THEN [result  |-> [base EXCEPT !.Message = "failed to " \o action],
              cluster |-> cluster, api |-> <<object>>]
        ELSE [result  |-> [base EXCEPT !.Success = TRUE,
                                       !.Message = "[DRY RUN] " \o action \o " skipped"],
              cluster |-> cluster \ {object}, api |-> <<object>>]

\* Remediator.execute: the result, the cluster after it, and the API calls it
\* made. apiFails: the API server answers with an error although the object
\* exists; a Delete of an object that is not there fails in any case.
execute(insight, apiFails) ==
    LET action == insight.ProposedAction
        target == insight.TargetNS \o "/" \o insight.TargetName
        object == <<ApiResource(action), insight.TargetNS, insight.TargetName>>
        base   == [Action |-> action,
                   TargetKind |-> insight.TargetKind,
                   TargetNamespace |-> insight.TargetNS,
                   TargetName |-> insight.TargetName,
                   InsightFingerprint |-> insight.Fingerprint,
                   Reason |-> insight.Title,
                   DryRun |-> dryRun,
                   Success |-> FALSE,
                   Message |-> ""]
    IN  IF dryRun
        THEN [result  |-> [base EXCEPT !.Success = TRUE,
                                       !.Message = "[DRY RUN] " \o action \o " skipped"],
              cluster |-> cluster, api |-> <<>>]
        ELSE IF action \notin AllowedActions
        THEN [result  |-> [base EXCEPT !.Message = "unknown action: " \o action],
              cluster |-> cluster, api |-> <<>>]
        ELSE IF apiFails \/ object \notin cluster
        THEN [result  |-> [base EXCEPT !.Message = "failed to " \o action \o " " \o target],
              cluster |-> cluster, api |-> <<object>>]
        ELSE [result  |-> [base EXCEPT !.Success = TRUE,
                                       !.Message = "auto-remediated: " \o action \o " " \o target],
              cluster |-> cluster \ {object}, api |-> <<object>>]

\* Every execution with dry-run disabled is recorded, failed or not.
Recorded_AnyExecution(result) == ~dryRun

\* if result.Success && !r.dryRun { r.circuitBreaker.Record(...) }
Recorded(result) == result.Success /\ ~dryRun

\* Remediate is called with a list of n insights; an empty list returns at once.
Remediate(n) ==
    /\ rpc = "idle"
    /\ calls < MaxCalls
    /\ calls' = calls + 1
    /\ visits + n <= MaxVisits
    /\ visits' = visits + n
    /\ startedAt' = wallTime
    /\ left' = n
    /\ rpc' = IF n = 0 THEN "returned" ELSE "loop"
    /\ UNCHANGED <<wallTime, maxPerHour, cooldown, recentTimes, resourceCooldowns,
                   recordLog, obs, dryRun, cluster, apiLog, cur, skipped, results, warned,
                   verifierVars, auditVars, otherVars>>

\* One iteration of the loop of Remediate, on the next insight of the list.
\* IsOpen and IsOnCooldown read the clock as the iteration begins; the API
\* call of execute takes latency ticks (a dry run makes no call), and may fail
\* (apiFails); Record reads the clock after it. The Remediate call returns
\* with the iteration that visits the last insight or breaks out of the loop.
Iterate(insight) ==
    LET pruned   == pruneOld(recentTimes, wallTime)
        rest     == left - 1
        continue == IF rest = 0 THEN "returned" ELSE "loop"
    IN  /\ rpc = "loop"
        /\ cur' = insight
        /\ left' = rest
        /\ UNCHANGED <<maxPerHour, cooldown, obs, dryRun, calls, visits, startedAt,
                       verifierVars, auditVars, otherVars>>
        /\ IF ~Eligible(insight)
           THEN /\ rpc' = continue
                /\ skipped' = skipped + 1
                /\ UNCHANGED <<wallTime, recentTimes, resourceCooldowns, recordLog,
                               cluster, results, warned, apiLog>>
           ELSE IF CircuitOpen(pruned)
           THEN /\ recentTimes' = pruned
                /\ warned' = TRUE
                /\ rpc' = "returned"
                /\ UNCHANGED <<wallTime, resourceCooldowns, recordLog, cluster,
                               results, apiLog, skipped>>
           ELSE IF OnCooldown(insight.TargetKind, insight.TargetNS, insight.TargetName, wallTime)
           THEN /\ recentTimes' = pruned
                /\ rpc' = continue
                /\ skipped' = skipped + 1
                /\ UNCHANGED <<wallTime, resourceCooldowns, recordLog, cluster,
                               results, warned, apiLog>>
           ELSE \E latency \in (IF dryRun THEN {0} ELSE 0..MaxLatency) :
                \E apiFails \in (IF dryRun THEN {FALSE} ELSE BOOLEAN) :
                LET ex   == execute(insight, apiFails)
                    done == wallTime + latency
                IN  /\ done <= MaxNow
                    /\ wallTime' = done
                    /\ results' = Append(results, ex.result)
                    /\ cluster' = ex.cluster
                    /\ apiLog' = apiLog \o [i \in DOMAIN ex.api |->
                                              [at |-> done, ok |-> ex.result.Success]]
                    /\ IF Recorded(ex.result)
                       THEN /\ recentTimes' = Append(pruned, done)
                            /\ resourceCooldowns' =
                                   CooldownsAfterRecord(insight.TargetKind, insight.TargetNS,
                                                        insight.TargetName, done)
                            /\ recordLog' = Append(recordLog,
                                   [triple |-> <<insight.TargetKind, insight.TargetNS,
                                                 insight.TargetName>>,
                                    at |-> done])
                       ELSE /\ recentTimes' = pruned
                            /\ UNCHANGED <<resourceCooldowns, recordLog>>
                    /\ rpc' = continue
                    /\ UNCHANGED <<warned, skipped>>

\* The caller has looked at the results Remediate returned.
TakeResults ==
    /\ rpc = "returned"
    /\ rpc' = "idle"
    /\ left' = 0
    /\ cur' = NoInsight
    /\ skipped' = 0
    /\ results' = <<>>
    /\ warned' = FALSE
    /\ startedAt' = 0
    /\ UNCHANGED <<wallTime, maxPerHour, cooldown, recentTimes, resourceCooldowns,
                   recordLog, obs, dryRun, cluster, apiLog, calls, visits,
                   verifierVars, auditVars, otherVars>>

NextRemediation ==
    \/ \E n \in 0..MaxInsights : Remediate(n)
    \/ TakeResults
    \/ \E insight \in Insights : Iterate(insight)
    \/ Tick

(***************************************************************************)
(*                             AUDIT LOG                                   *)
(***************************************************************************)

\* Number of goroutines that call Log on the logger.
NumLoggers == 2

\* Log calls made in a run.
MaxLogCalls == 3

\* NewAuditLogger calls made on the path in a run.
MaxLoggers == 2

Loggers == 1..NumLoggers

\* The empty string, as a hash value.
EmptyHash == << >>

\* hex(sha256.Sum256(prev ++ raw)), symbolically: free of collisions.
Sha256(prev, raw) == <<prev, raw>>

\* time.Time{}: Timestamp.IsZero() holds.
ZeroTime == "0001-01-01T00:00:00Z"

\* time.Now().UTC() as Log stamps it.
StampTime == "2026-01-01T00:00:01Z"

\* encoding/json writes a string with every invalid UTF-8 byte replaced by
\* U+FFFD; reading the text back gives the replaced string.
JSONString(str) == IF str = "ls\\xff" THEN "ls\\ufffd" ELSE str

\* json.Marshal(entry): the bytes of the JSON object.
Marshal(entry) ==
    [json |-> [timestamp  |-> entry.timestamp,
               session_id |-> JSONString(entry.session_id),
               event_type |-> JSONString(entry.event_type),
               input      |-> JSONString(entry.input),
               entry_hash |-> entry.entry_hash]]

\* json.Unmarshal(line, &entry)
Unmarshal(line) == line.json

\* The entries callers pass to Log: with and without a timestamp, with an
\* input that is not valid UTF-8, with an entry_hash already filled in.
AuditEntries ==
    { [timestamp |-> "2026-01-01T00:00:00Z", session_id |-> "s1",
       event_type |-> "SESSION_OPEN", input |-> "", entry_hash |-> EmptyHash],
      [timestamp |-> ZeroTime, session_id |-> "s1",
       event_type |-> "COMMAND", input |-> "ls", entry_hash |-> EmptyHash],
      [timestamp |-> ZeroTime, session_id |-> "s2",
       event_type |-> "COMMAND", input |-> "ls\\xff",
       entry_hash |-> Sha256(EmptyHash, "stale")] }

NoLine == Marshal([timestamp |-> ZeroTime, session_id |-> "", event_type |-> "",
                   input |-> "", entry_hash |-> EmptyHash])

\* NewAuditLogger, lines 43-58: the entry_hash of the last non-empty line of
\* the file, "" when the file is empty.  (Log writes no empty line and every
\* line it writes parses.)
RecoveredHash(lines) ==
    IF Len(lines) = 0 THEN EmptyHash ELSE Unmarshal(lines[Len(lines)]).entry_hash

\* Log, lines 73-78: stamp the timestamp if absent, clear the hash.
Prepared(entry) ==
    [entry EXCEPT !.timestamp = IF entry.timestamp = ZeroTime THEN StampTime ELSE @,
                  !.entry_hash = EmptyHash]

\* Log, lines 79-92: the hash of the entry and the line to write.
HashedLine(prev, entry) ==
    LET raw == Marshal(Prepared(entry))
        h   == Sha256(prev, raw)
    IN  [hash |-> h, line |-> Marshal([Prepared(entry) EXCEPT !.entry_hash = h])]

\* NewAuditLogger(path) on a path with no file yet.
AuditIdle ==
    /\ file = << >>
    /\ prevHash = EmptyHash
    /\ isOpen = TRUE
    /\ mu = 0
    /\ lpc = [p \in Loggers |-> "idle"]
    /\ pending = [p \in Loggers |-> NoLine]
    /\ logCalls = 0
    /\ logErrors = 0
    /\ loggersMade = 1

\* Log(entry), lines 69-92: take the mutex, compute the hash over prevHash and
\* the entry, store it as the new prevHash, build the line.
LogBegin(p, entry) ==
    /\ lpc[p] = "idle"
    /\ logCalls < MaxLogCalls
    /\ mu = 0
    /\ mu' = p
    /\ LET hl == HashedLine(prevHash, entry)
       IN  /\ prevHash' = hl.hash
           /\ pending' = [pending EXCEPT ![p] = hl.line]
    /\ lpc' = [lpc EXCEPT ![p] = "write"]
    /\ logCalls' = logCalls + 1
    /\ UNCHANGED <<file, isOpen, logErrors, loggersMade, verifierVars, remediationVars, otherVars>>

\* Log, lines 94-98: l.file.Write(line) succeeds (one write on an O_APPEND
\* file); return nil, releasing the mutex.
LogWrite(p) ==
    /\ lpc[p] = "write"
    /\ isOpen
    /\ file' = Append(file, pending[p])
    /\ mu' = 0
    /\ lpc' = [lpc EXCEPT ![p] = "idle"]
    /\ pending' = [pending EXCEPT ![p] = NoLine]
    /\ UNCHANGED <<prevHash, isOpen, logCalls, logErrors, loggersMade, verifierVars, remediationVars, otherVars>>

\* Log, lines 94-96: l.file.Write(line) fails (the disk is full, an I/O error,
\* the file is closed); return the error, releasing the mutex.
LogWriteFails(p) ==
    /\ lpc[p] = "write"
    /\ mu' = 0
    /\ lpc' = [lpc EXCEPT ![p] = "idle"]
    /\ pending' = [pending EXCEPT ![p] = NoLine]
    /\ logErrors' = logErrors + 1
    /\ UNCHANGED <<file, prevHash, isOpen, logCalls, loggersMade, verifierVars, remediationVars, otherVars>>

\* Close(): close the file, under the mutex.
Close ==
    /\ isOpen
    /\ mu = 0
    /\ isOpen' = FALSE
    /\ UNCHANGED <<file, prevHash, mu, lpc, pending, logCalls, logErrors, loggersMade, verifierVars, remediationVars, otherVars>>

\* NewAuditLogger(path) after the previous logger was closed: recover prevHash
\* from the file and open it for appending.
NewAuditLogger ==
    /\ ~isOpen
    /\ mu = 0
    /\ loggersMade < MaxLoggers
    /\ prevHash' = RecoveredHash(file)
    /\ isOpen' = TRUE
    /\ loggersMade' = loggersMade + 1
    /\ UNCHANGED <<file, mu, lpc, pending, logCalls, logErrors, verifierVars, remediationVars, otherVars>>

NextAudit ==
    \/ \E p \in Loggers, entry \in AuditEntries : LogBegin(p, entry)
    \/ \E p \in Loggers : LogWrite(p)
    \/ \E p \in Loggers : LogWriteFails(p)
    \/ Close
    \/ NewAuditLogger

\* Rereading the file and recomputing every hash from scratch, as the
\* verification of the chain does: line i carries the hash of (the hash
\* recorded in line i-1, or "" for the first line) and of the entry with its
\* entry_hash blanked.
ChainIntact(lines) ==
    \A i \in DOMAIN lines :
        LET entry    == Unmarshal(lines[i])
            prev     == IF i = 1 THEN EmptyHash ELSE Unmarshal(lines[i - 1]).entry_hash
            expected == Sha256(prev, Marshal([entry EXCEPT !.entry_hash = EmptyHash]))
        IN  entry.entry_hash = expected

(***************************************************************************)
(*                        SIGNING VERIFIER                                 *)
(***************************************************************************)

\* Resolution of the clock: ticks per second. time.Now() has sub-second
\* resolution while time.Now().Unix() truncates to whole seconds.
TicksPerSec == 2

\* The clock runs over MaxWindows freshness windows.
MaxWindows == 2

\* const MaxTimestampAge = 30 * time.Second
MaxTimestampAge == 30

Seconds(s) == s * TicksPerSec

\* time.Time.Unix(): whole seconds, the sub-second part is dropped.
Unix(t) == t \div TicksPerSec

\* NewVerifier: nonceStore: NewNonceStore(MaxTimestampAge * 2)
ttl_Short == Seconds(MaxTimestampAge)

ttl == Seconds(MaxTimestampAge * 2)

Abs(x) == IF x < 0 THEN -x ELSE x

\* The instants at which something happens: the boundaries of the freshness
\* windows and one tick before and after each of them.
Instants ==
    { t \in { k * Seconds(MaxTimestampAge) + e : k \in 0..MaxWindows, e \in {-1, 0, 1} } : t >= 0 }

\* The times at which a Verify call that reaches the nonce store at time t may
\* have read time.Now() for its freshness check: t, or the instant before.
ReadTimes(t) ==
    {t} \cup { r \in Instants : r < t /\ \A x \in Instants : ~(r < x /\ x < t) }

NonceNames == {"n1", "n2"}

\* The timestamps (Unix seconds) a sender may put into an envelope.
TimestampChoices == { k * MaxTimestampAge : k \in 0..MaxWindows }

\* The agent's key pair and a key the agent does not trust.
TrustedKey == "saas-key"
OtherKey == "other-key"

NoPayload == [command |-> "", timestamp |-> 0, nonce |-> "", user_id |-> "", origin |-> ""]

\* The signature field of an envelope: absent (the empty string), a string
\* that is not base64, or the base64 of a signature.
NoSignature == [enc |-> "absent", key |-> "", over |-> NoPayload]
GarbledSignature == [enc |-> "garbled", key |-> "", over |-> NoPayload]

\* ed25519.Sign, symbolically: a signature names the key that made it and the
\* bytes it was made over.
Ed25519Sign(key, payload) == [enc |-> "base64", key |-> key, over |-> payload]

Ed25519Verify_AnyKey(payload, sig) == sig.over = payload

\* ed25519.Verify(v.pubKey, canonical, sig)
Ed25519Verify(payload, sig) == sig.key = TrustedKey /\ sig.over = payload

\* SignedPayload built by Verify from the envelope: the canonical signed form.
CanonicalPayload(env) ==
    [command |-> env.command, timestamp |-> env.timestamp, nonce |-> env.nonce,
     user_id |-> env.user_id, origin |-> env.origin]

\* A raw message: the command fields plus the five envelope fields.
Envelope(cmd, ts, nonce, sigKind) ==
    LET body == [command |-> cmd, timestamp |-> ts, nonce |-> nonce,
                 user_id |-> "admin", origin |-> "saas"]
        sig == CASE sigKind = "missing" -> NoSignature
                 [] sigKind = "garbled" -> GarbledSignature
                 [] sigKind = "forged"  -> Ed25519Sign(OtherKey, body)
                 [] OTHER               -> Ed25519Sign(TrustedKey, body)
    IN  [json |-> TRUE, command |-> cmd, timestamp |-> ts, nonce |-> nonce,
         user_id |-> "admin", origin |-> "saas", signature |-> sig]

SigKinds == {"missing", "garbled", "forged", "valid"}

\* Bytes that json.Unmarshal rejects.
BadJSON == [json |-> FALSE, command |-> "", timestamp |-> 0, nonce |-> "",
            user_id |-> "", origin |-> "", signature |-> NoSignature]

Messages ==
    { Envelope("session.open", ts, n, k) :
        ts \in TimestampChoices, n \in NonceNames \cup {""}, k \in SigKinds }
    \cup {BadJSON}

\* base64 decoding of env.Signature succeeds (StdEncoding or RawStdEncoding).
SignatureDecodes(sig) == sig.enc = "base64"

\* NonceStore.Add, the garbage collection: entries older than ttl are deleted.
ReapedNonces(store, now) ==
    [k \in { k \in DOMAIN store : ~(now - store[k] > ttl) } |-> store[k]]

\* NonceStore.Add(nonce) at time now: the new store, the new lastGC and the
\* result (TRUE if the nonce is new, FALSE if it is a replay).
NonceStoreAdd(store, gc, nonce, now) ==
    LET collect == now - gc > ttl
        kept    == IF collect THEN ReapedNonces(store, now) ELSE store
        gc2     == IF collect THEN now ELSE gc
    IN  IF nonce \in DOMAIN kept
        THEN [ok |-> FALSE, nonces |-> kept, lastGC |-> gc2]
        ELSE [ok |-> TRUE, lastGC |-> gc2,
              nonces |-> [k \in DOMAIN kept \cup {nonce} |->
                             IF k = nonce THEN now ELSE kept[k]]]

EarlyReject_OneSided(raw, now) ==
    IF ~raw.json THEN "invalid JSON"
    ELSE IF raw.signature.enc = "absent" THEN "missing signature"
    ELSE IF raw.nonce = "" THEN "missing nonce"
    ELSE IF now - raw.timestamp > MaxTimestampAge
         THEN "timestamp too old or in future"
    ELSE None

\* The checks of Verify that precede the nonce store: the reason of the
\* rejection, or None when the message goes on to the nonce check.
EarlyReject(raw, now) ==
    IF ~raw.json THEN "invalid JSON"
    ELSE IF raw.signature.enc = "absent" THEN "missing signature"
    ELSE IF raw.nonce = "" THEN "missing nonce"
    ELSE IF Abs(now - raw.timestamp) > MaxTimestampAge
         THEN "timestamp too old or in future"
    ELSE None

\* The checks of Verify that follow a successful nonce insertion.
SignatureReject(env) ==
    IF ~SignatureDecodes(env.signature) THEN "invalid signature encoding"
    ELSE IF ~Ed25519Verify(CanonicalPayload(env), env.signature)
         THEN "signature verification failed"
    ELSE None

\* The outcome of a Verify call: the check that decided it ("early": before the
\* nonce store, "nonce": at the nonce store or after it), what it returned,
\* and what the message was: its nonce, the time the call read minus its
\* timestamp, and whether its signature is the trusted key's over its fields.
NoResult == [stage |-> None, valid |-> FALSE, reason |-> None, nonce |-> "",
             skew |-> 0, signedOK |-> FALSE]

\* The nonce is stored only when the message is accepted.
NoncesAfterVerify_OnAcceptOnly(early, added, why) ==
    IF why = None THEN added.nonces ELSE nonces

\* The nonce store when Verify returns: v.nonceStore.Add is called once the
\* early checks have passed, before the signature is decoded and verified,
\* and nothing takes the nonce out again when the signature is rejected.
NoncesAfterVerify(early, added, why) ==
    IF early # None THEN nonces ELSE added.nonces

\* NewVerifier(pubKey): an empty nonce store, lastGC: time.Now().
VerifierIdle ==
    /\ clock = 0
    /\ nonces = << >>
    /\ lastGC = 0
    /\ last = NoResult
    /\ acceptLog = [n \in NonceNames |-> << >>]
    /\ rejectLog = [n \in NonceNames |-> NoTime]

InitVerifier == VerifierIdle /\ AuditIdle /\ RemediationUnused /\ OthersIdle

\* Verify(raw), called by any goroutine.  The call read time.Now().Unix() at
\* readAt (line 105) and reaches the nonce store now, at clock (line 120).
\* The steps before NonceStore.Add touch nothing shared and Add runs under
\* the store's mutex, so the call takes effect in one step, at its Add; the
\* calls of concurrent goroutines interleave as such steps, each with its own
\* (possibly earlier) reading of the time.
Verify(raw, readAt) ==
    LET now   == Unix(readAt)
        early == EarlyReject(raw, now)
        added == NonceStoreAdd(nonces, lastGC, raw.nonce, clock)
        why   == IF early # None THEN early
                 ELSE IF ~added.ok THEN "duplicate nonce (replay detected)"
                 ELSE SignatureReject(raw)
    IN  /\ last = NoResult
        /\ last' = [stage |-> IF early # None THEN "early" ELSE "nonce",
                    valid |-> (why = None), reason |-> why,
                    nonce |-> raw.nonce, skew |-> now - raw.timestamp,
                    signedOK |-> (raw.json /\ SignatureReject(raw) = None)]
        /\ nonces' = NoncesAfterVerify(early, added, why)
        /\ lastGC' = IF early # None THEN lastGC ELSE added.lastGC
        /\ acceptLog' =
              IF why = None
              THEN [acceptLog EXCEPT ![raw.nonce] =
                       Append(@, [at |-> clock, timestamp |-> raw.timestamp])]
              ELSE acceptLog
        /\ rejectLog' =
              IF why \in {"invalid signature encoding", "signature verification failed"}
              THEN [rejectLog EXCEPT ![raw.nonce] = clock]
              ELSE rejectLog
        /\ UNCHANGED <<clock, auditVars, remediationVars, otherVars>>

\* The caller takes the result of the call that just returned.
TakeResult ==
    /\ last # NoResult
    /\ last' = NoResult
    /\ UNCHANGED <<clock, nonces, lastGC, acceptLog, rejectLog, auditVars, remediationVars, otherVars>>

\* Time passes.
AdvanceClock ==
    /\ last = NoResult
    /\ \E t \in Instants : t > clock /\ clock' = t
    /\ UNCHANGED <<nonces, lastGC, last, acceptLog, rejectLog, auditVars, remediationVars, otherVars>>

NextVerifier ==
    \/ \E readAt \in ReadTimes(clock) : \E raw \in Messages : Verify(raw, readAt)
    \/ TakeResult
    \/ AdvanceClock

SpecVerifier == InitVerifier /\ [][NextVerifier]_vars

InitAudit == AuditIdle /\ VerifierIdle /\ RemediationUnused /\ OthersIdle

SpecAudit == InitAudit /\ [][NextAudit]_vars

\* A new breaker with some limit and cooldown; its methods are called directly.
InitBreaker ==
    /\ RemediationIdle
    /\ maxPerHour \in 0..MaxRate
    /\ cooldown \in Cooldowns
    /\ dryRun = FALSE
    /\ VerifierIdle
    /\ AuditIdle
    /\ OthersIdle

SpecBreaker == InitBreaker /\ [][NextBreaker]_vars

\* A new breaker with some limit and a cooldown of one tick, and a remediator
\* on it with dry-run enabled or disabled.
InitRemediation ==
    /\ RemediationIdle
    /\ maxPerHour \in 0..MaxRate
    /\ cooldown = 1
    /\ dryRun \in BOOLEAN
    /\ VerifierIdle
    /\ AuditIdle
    /\ OthersIdle

SpecRemediation == InitRemediation /\ [][NextRemediation]_vars

(***************************************************************************)
(* Claims about the signing verifier                                       *)
(***************************************************************************)

\* The nonce TTL the specification states: 2 x MaxTimestampAge = 60 s.
NonceTTL == Seconds(2 * MaxTimestampAge)

\* The time of the latest acceptance of nonce n that precedes the call whose
\* outcome is in last (NoTime if there is none).
PriorAccept(n) ==
    LET log == acceptLog[n]
        k   == IF last.valid /\ last.nonce = n THEN Len(log) - 1 ELSE Len(log)
    IN  IF k >= 1 THEN log[k].at ELSE NoTime

\* C1 (replay rejection): once Verify has accepted a message with nonce n, a
\* Verify call that reaches the verifier within the nonce TTL (60 s) with a
\* message carrying n is never accepted, whatever its other fields; when that
\* message carries a signature (of any kind: garbled, forged or genuine) and a
\* fresh timestamp, the reason is "duplicate nonce (replay detected)".  No
\* nonce is accepted twice within the TTL.
C1_ReplayRejected ==
    /\ \A n \in NonceNames : \A i, j \in DOMAIN acceptLog[n] :
          i < j => acceptLog[n][j].at - acceptLog[n][i].at > NonceTTL
    /\ \A n \in NonceNames :
          (/\ last.stage # None
           /\ last.nonce = n
           /\ PriorAccept(n) # NoTime
           /\ clock - PriorAccept(n) <= NonceTTL)
          => /\ ~last.valid
             /\ (/\ Abs(last.skew) <= MaxTimestampAge
                 /\ last.reason # "missing signature")
                => last.reason = "duplicate nonce (replay detected)"

\* C1 witness: a message with an accepted nonce and a fresh timestamp comes
\* back exactly one TTL after the acceptance and is rejected as a replay.
C1_Witness ==
    \E n \in NonceNames :
        /\ last.nonce = n
        /\ PriorAccept(n) # NoTime
        /\ clock - PriorAccept(n) = NonceTTL
        /\ Abs(last.skew) <= MaxTimestampAge
        /\ last.reason = "duplicate nonce (replay detected)"

\* C2 (a message is accepted at most once): no signed message, identified by
\* its nonce and timestamp, is accepted by two Verify calls, whatever time has
\* passed and whatever was verified in between.
C2_NeverAcceptedAgain ==
    \A n \in NonceNames : \A i, j \in DOMAIN acceptLog[n] :
        i # j => acceptLog[n][i].timestamp # acceptLog[n][j].timestamp

\* C3 (bilateral freshness): a Verify call that finds the message's timestamp
\* more than 30 s away from the time it read, in the past or in the future,
\* returns valid=false with a reason, whatever the signature and the nonce.
C3_FreshnessBilateral ==
    (last.stage # None /\ Abs(last.skew) > MaxTimestampAge)
    => (~last.valid /\ last.reason # None)

\* C3 witness: a message from the future (31 s or more ahead), correctly signed
\* and with a nonce that is not in the store, has been rejected.
C3_Witness ==
    /\ last.stage # None
    /\ last.skew < -MaxTimestampAge
    /\ last.signedOK
    /\ last.nonce \in NonceNames
    /\ last.nonce \notin DOMAIN nonces
    /\ ~last.valid

\* The reasons with which Verify rejects a signature.
SignatureReasons == {"invalid signature encoding", "signature verification failed"}

\* When Verify has rejected a message for its signature, the nonce of the
\* message is in the store, and it stays there for the TTL.
NonceOfRejectedStored ==
    \A n \in NonceNames :
        /\ (last.reason \in SignatureReasons /\ last.nonce = n)
           => (n \in DOMAIN nonces /\ nonces[n] = clock /\ rejectLog[n] = clock)
        /\ (rejectLog[n] # NoTime /\ clock - rejectLog[n] <= NonceTTL)
           => n \in DOMAIN nonces

\* A Verify call on a message whose nonce was on a message rejected for its
\* signature no longer than the TTL ago does not accept it; when the message
\* carries a signature and a fresh timestamp, the reason is the replay.
RejectedNonceIsSpent ==
    \A n \in NonceNames :
        (/\ last = NoResult
         /\ last' # NoResult
         /\ last'.nonce = n
         /\ rejectLog[n] # NoTime
         /\ clock - rejectLog[n] <= NonceTTL)
        => /\ ~last'.valid
           /\ (/\ Abs(last'.skew) <= MaxTimestampAge
               /\ last'.reason # "missing signature")
              => last'.reason = "duplicate nonce (replay detected)"

\* C28: Verify inserts the nonce before it checks the signature: when it
\* has rejected a fresh message with "signature verification failed" or
\* "invalid signature encoding" the nonce is in the store and stays there for
\* the TTL, and within the TTL no message with that nonce is accepted; one
\* that carries a signature and a fresh timestamp, a correctly signed one
\* included, is rejected with "duplicate nonce (replay detected)".
C28_NonceSpentBeforeSignature == []NonceOfRejectedStored /\ [][RejectedNonceIsSpent]_vars

\* C28 witness: a correctly signed message with a fresh timestamp is rejected
\* as a replay exactly one TTL after a message with its nonce was rejected
\* for its signature; no message with that nonce was ever accepted.
C28_Witness ==
    \E n \in NonceNames :
        /\ last.nonce = n
        /\ last.signedOK
        /\ Abs(last.skew) <= MaxTimestampAge
        /\ last.reason = "duplicate nonce (replay detected)"
        /\ acceptLog[n] = << >>
        /\ rejectLog[n] # NoTime
        /\ clock - rejectLog[n] = NonceTTL

(***************************************************************************)
(* Claims about the audit log                                              *)
(***************************************************************************)

\* No Log call is under way.
LogsReturned == \A p \in Loggers : lpc[p] = "idle"

\* C4 (audit chain continuity): after any sequence of Log calls on an
\* initially empty log, rereading the file and recomputing the hashes from
\* scratch reproduces every stored entry_hash.
C4_ChainReproduced == LogsReturned => ChainIntact(file)

\* C5 (concurrent writes): once the concurrent Log calls have all returned,
\* the file holds exactly one complete entry for each call that returned nil
\* (none lost, none interleaved) and the hash chain over the entries, in file
\* order, is intact.
C5_ConcurrentLogsIntact ==
    LogsReturned => (Len(file) = logCalls - logErrors /\ ChainIntact(file))

\* C6 (restart): after a logger was closed and a new one opened on the same
\* path (which starts from the entry_hash of the file's last line), the whole
\* file, old and new entries together, verifies as one intact chain.
C6_ChainSurvivesRestart ==
    (loggersMade > 1 /\ LogsReturned) => ChainIntact(file)

\* As long as no Log call has returned an error, the chain of the file is
\* intact, every call has its entry in the file and the logger's prevHash is
\* the hash of the last line: the three claims fail only after a failed write.
AuditIntactUntilWriteFails ==
    (logErrors = 0 /\ LogsReturned)
    => (ChainIntact(file) /\ Len(file) = logCalls /\ prevHash = RecoveredHash(file))

\* C29 (failed write): once a Log call whose file write failed has returned
\* its error, the logger's prevHash is what it was before the call, the
\* entry_hash of the last line actually in the file ("" for an empty file),
\* so the next entry chains to that line and the file still verifies.
C29_FailedWriteKeepsChainState ==
    (LogsReturned /\ logErrors > 0)
    => (prevHash = RecoveredHash(file) /\ ChainIntact(file))

(***************************************************************************)
(* Claims about the circuit breaker and the remediator.                    *)
(***************************************************************************)

\* The entries of log at or after entry i and no more than an hour after it
\* that satisfy Counted: what falls in the one-hour window that opens with i.
InWindowFrom(log, i, Counted(_)) ==
    {j \in DOMAIN log :
        /\ Counted(log[j])
        /\ log[j].at >= log[i].at
        /\ log[j].at - log[i].at <= Hour}

IsSuccess(e) == e.ok

IsExecution(e) == TRUE

\* What the loop of the returned call visited, when it passed over nothing:
\* the insights it executed and, after a break, the one it broke on.
VisitedTargets ==
    [i \in 1..Len(results) |->
        <<results[i].Action, results[i].TargetKind, results[i].TargetName>>]
    \o (IF warned THEN <<<<cur.ProposedAction, cur.TargetKind, cur.TargetName>>>> ELSE <<>>)

\* The example of C7: the first call on a new breaker with maxPerHour = 2,
\* dry-run disabled, has returned from a list of three delete_pod insights on
\* three distinct pods.
ThreePodsExample ==
    /\ rpc = "returned"
    /\ ~dryRun
    /\ maxPerHour = 2
    /\ calls = 1
    /\ left = 0
    /\ skipped = 0
    /\ Len(VisitedTargets) = 3
    /\ \A i \in 1..3 : VisitedTargets[i][1] = "delete_pod" /\ VisitedTargets[i][2] = "Pod"
    /\ \A i, j \in 1..3 : i # j => VisitedTargets[i][3] # VisitedTargets[j][3]

\* C7 as stated: with dry-run disabled, no one-hour window holds more than
\* maxPerHour executed remediations; a call that finds the circuit open visits
\* no further insight; and the example yields exactly two executed
\* remediations, the third insight being skipped.
C7_AtMostNExecuted ==
    /\ ~dryRun =>
          \A i \in DOMAIN apiLog :
              Cardinality(InWindowFrom(apiLog, i, IsExecution)) <= maxPerHour
    /\ warned => rpc = "returned"
    /\ ThreePodsExample => (Len(results) = 2 /\ warned)

\* C7 (amended): with dry-run disabled, no one-hour window holds more than
\* maxPerHour successfully executed remediations (failed executions are not
\* counted); a call that finds the circuit open visits no further insight; and
\* the example yields exactly two executed remediations, the third insight
\* being skipped, when the deletions succeed and the call takes no more than
\* an hour.
C7_AtMostNSucceeded ==
    /\ ~dryRun =>
          \A i \in DOMAIN apiLog :
              apiLog[i].ok =>
                  Cardinality(InWindowFrom(apiLog, i, IsSuccess)) <= maxPerHour
    /\ warned => rpc = "returned"
    /\ (/\ ThreePodsExample
        /\ \A i \in DOMAIN results : results[i].Success
        /\ wallTime - startedAt <= Hour)
       => (Len(results) = 2 /\ warned)

\* C7 witness: the example has happened: two pods deleted, and the loop broke
\* on the third insight with the circuit open.
C7_Witness ==
    /\ ThreePodsExample
    /\ \A i \in DOMAIN results : results[i].Success
    /\ Len(results) = 2
    /\ warned
    /\ Len(apiLog) = 2

\* The Record calls made no more than an hour before time t.
RecordsWithinHour(t) ==
    Cardinality({i \in DOMAIN recordLog : t - recordLog[i].at <= Hour})

\* C8: IsOpen returns true exactly when at least maxPerHour Record calls were
\* made within the preceding hour; older records do not count.
C8_OpenIffRateReached ==
    obs.op = "IsOpen" => (obs.ret <=> RecordsWithinHour(obs.at) >= maxPerHour)

\* C8 witness: the breaker has closed again: IsOpen returns false although
\* maxPerHour records were made, because enough of them are over an hour old.
C8_Witness ==
    /\ obs.op = "IsOpen"
    /\ ~obs.ret
    /\ maxPerHour > 0
    /\ Len(recordLog) >= maxPerHour

\* C9: IsOnCooldown(K, NS, N) returns true exactly when Record(K, NS, N) was
\* called less than the cooldown ago: true from the Record on until the
\* cooldown has elapsed, false for a triple that was never recorded.
C9_CooldownPerResource ==
    obs.op = "IsOnCooldown" =>
        (obs.ret <=> \E i \in DOMAIN recordLog :
                        /\ recordLog[i].triple = obs.triple
                        /\ obs.at - recordLog[i].at < cooldown)

\* C9 witness: IsOnCooldown returns false for a triple that was never recorded
\* while a recorded triple, differing from it in namespace and name, is on
\* cooldown.
C9_Witness ==
    /\ obs.op = "IsOnCooldown"
    /\ ~obs.ret
    /\ \A i \in DOMAIN recordLog : recordLog[i].triple # obs.triple
    /\ \E i \in DOMAIN recordLog :
          /\ recordLog[i].triple[1] = obs.triple[1]
          /\ recordLog[i].triple[2] # obs.triple[2]
          /\ recordLog[i].triple[3] # obs.triple[3]
          /\ obs.at - recordLog[i].at < cooldown

\* The insights Remediate may execute: flagged auto_remediable and proposing
\* delete_pod, force_delete_pod or delete_pvc.
Executable(insight) ==
    /\ insight.AutoRemediable
    /\ insight.ProposedAction \in {"delete_pod", "force_delete_pod", "delete_pvc"}

InsightOf(fingerprint) == CHOOSE x \in Insights : x.Fingerprint = fingerprint

\* Every result of the call belongs to an insight Remediate may execute.
ResultsOnlyOfExecutable ==
    \A i \in DOMAIN results : Executable(InsightOf(results[i].InsightFingerprint))

\* An iteration on an insight Remediate may not execute adds no result, makes
\* no API call and leaves the breaker and the cluster as they were.
SkipChangesNothing ==
    (rpc = "loop" /\ left' = left - 1 /\ ~Executable(cur'))
    => UNCHANGED <<results, apiLog, cluster, recentTimes, resourceCooldowns,
                   recordLog, wallTime>>

\* C10: Remediate returns no result for, makes no API call for and leaves the
\* breaker unchanged by an insight that is not auto_remediable or whose
\* proposed action is outside the allowlist, wherever it stands in the list.
C10_NeverExecuted == []ResultsOnlyOfExecutable /\ [][SkipChangesNothing]_vars

\* C10 witness: a call has returned whose list ends with an insight that may
\* not be executed, after an insight that was executed with dry-run disabled.
C10_Witness ==
    /\ rpc = "returned"
    /\ ~dryRun
    /\ cur # NoInsight
    /\ ~Executable(cur)
    /\ skipped >= 1
    /\ Len(results) >= 1
    /\ results[Len(results)].Success

\* The objects of the cluster before any remediation.
AllObjects ==
    {<<"pods", "prod", "db">>, <<"pods", "prod", "api">>, <<"pods", "prod", "web">>,
     <<"persistentvolumeclaims", "prod", "db">>}

\* With dry-run enabled nothing was deleted and no API call was made, and
\* every result says so.
DryRunTouchesNothing ==
    dryRun =>
        /\ cluster = AllObjects
        /\ apiLog = <<>>
        /\ \A i \in DOMAIN results :
              /\ results[i].Success
              /\ results[i].DryRun
              /\ results[i].Message = "[DRY RUN] " \o results[i].Action \o " skipped"

\* With dry-run enabled, on a breaker that allows at least one remediation an
\* hour, the iteration on an insight Remediate may execute appends one result,
\* which names that insight.
DryRunSimulatesEach ==
    (dryRun /\ maxPerHour > 0 /\ rpc = "loop" /\ left' = left - 1 /\ Executable(cur'))
    => /\ Len(results') = Len(results) + 1
       /\ SubSeq(results', 1, Len(results)) = results
       /\ results'[Len(results')].InsightFingerprint = cur'.Fingerprint
       /\ results'[Len(results')].Action = cur'.ProposedAction

\* C11: with dry-run enabled Remediate mutates nothing in the cluster and
\* returns, for each insight it may execute, a result with success = true,
\* dry_run = true and the message "[DRY RUN] <action> skipped".
C11_DryRunGating == []DryRunTouchesNothing /\ [][DryRunSimulatesEach]_vars

\* C11 witness: a dry-run call has returned two simulated results from a list
\* that also held an insight it may not execute.
C11_Witness ==
    /\ rpc = "returned"
    /\ dryRun
    /\ Len(results) = 2
    /\ skipped = 1
    /\ results[1].Message = "[DRY RUN] delete_pod skipped"

\* The entries of a list of times that are no more than an hour old at time
\* t: the breaker's sliding window at t.
WithinHour(times, t) ==
    LET InWindow(x) == ~(x < t - Hour) IN SelectSeq(times, InWindow)

\* An iteration of the loop of Remediate that executed its insight with
\* success and with dry-run disabled appends the time to the sliding window,
\* stores it under the resource's key in the cooldown map and makes that one
\* Record call; any other iteration (the insight was skipped, its execution
\* failed, or it was simulated in a dry run) leaves the sliding window and the
\* cooldown map as they were and makes no Record call.  No other step of
\* Remediate touches the breaker.
RecordsOnlySuccess ==
    LET visited  == rpc = "loop" /\ left' = left - 1
        executed == Len(results') = Len(results) + 1
        result   == results'[Len(results')]
        triple   == <<result.TargetKind, result.TargetNamespace, result.TargetName>>
        key      == resourceKey(triple[1], triple[2], triple[3])
    IN  IF visited /\ executed /\ result.Success /\ ~result.DryRun /\ ~dryRun
        THEN /\ WithinHour(recentTimes', wallTime')
                  = Append(WithinHour(recentTimes, wallTime'), wallTime')
             /\ DOMAIN resourceCooldowns' = DOMAIN resourceCooldowns \cup {key}
             /\ resourceCooldowns'[key] = wallTime'
             /\ \A k \in DOMAIN resourceCooldowns :
                   k # key => resourceCooldowns'[k] = resourceCooldowns[k]
             /\ recordLog' = Append(recordLog, [triple |-> triple, at |-> wallTime'])
        ELSE /\ WithinHour(recentTimes', wallTime') = WithinHour(recentTimes, wallTime')
             /\ resourceCooldowns' = resourceCooldowns
             /\ recordLog' = recordLog

\* C22: Remediate records in the circuit breaker exactly the remediations
\* that executed successfully with dry-run disabled: a failed execution, a
\* dry-run simulation and a skipped insight each leave the breaker's sliding
\* window and its per-resource cooldown map unchanged.
C22_RecordsExactlySuccesses == [][RecordsOnlySuccess]_vars

\* C22 witness: with dry-run disabled a call has returned that skipped an
\* insight, executed one with success and one without; one record was made.
C22_Witness ==
    /\ rpc = "returned"
    /\ ~dryRun
    /\ calls = 1
    /\ skipped >= 1
    /\ \E i, j \in DOMAIN results : results[i].Success /\ ~results[j].Success
    /\ Len(recordLog) = 1
    /\ Len(recentTimes) = 1

(***************************************************************************)
(*                         INSIGHT REPORTER                                *)
(***************************************************************************)
MaxSweep == 2

MaxReports == 3

\* The first three subsystems at rest.
CoreIdle == VerifierIdle /\ AuditIdle /\ RemediationUnused

\* The fingerprints of the sweeps, in the order of sort.Strings.
Fingerprints == <<"1a", "2b">>

Rank(fp) == CHOOSE i \in DOMAIN Fingerprints : Fingerprints[i] = fp

\* What a sweep hands to Report: the fingerprints of its insights, in the
\* order of the insights. The resource-pressure analyzer is run once for every
\* namespace and reports the same node each time, so a fingerprint may repeat.
Sweeps ==
    UNION {[1..n -> {Fingerprints[i] : i \in DOMAIN Fingerprints}] : n \in 0..MaxSweep}

RECURSIVE Insert(_, _)
Insert(fp, sorted) ==
    IF sorted = <<>> THEN <<fp>>
    ELSE IF Rank(fp) <= Rank(Head(sorted)) THEN <<fp>> \o sorted
    ELSE <<Head(sorted)>> \o Insert(fp, Tail(sorted))

RECURSIVE ActiveFingerprints(_)
\* ActiveFingerprints: the fingerprints of the insights, sorted.
ActiveFingerprints(insights) ==
    IF insights = <<>> THEN <<>>
    ELSE Insert(Head(insights), ActiveFingerprints(Tail(insights)))

RECURSIVE Join(_, _)
\* strings.Join
Join(strs, sep) ==
    IF strs = <<>> THEN ""
    ELSE IF Len(strs) = 1 THEN strs[1]
    ELSE strs[1] \o sep \o Join(Tail(strs), sep)

\* The key Report compares.
FpsKey(insights) == Join(ActiveFingerprints(insights), ",")

\* The key is remembered as soon as it is found to differ, before the sync.
Remembered_BeforeSync(fpsKey, httpOK) == fpsKey

\* lastFingerprints when Report returns: every return before the last two
\* statements (the skip, a failed request, a status other than 200, a body
\* that does not parse) leaves it alone; r.lastFingerprints = fpsKey follows.
Remembered(fpsKey, httpOK) ==
    IF fpsKey # lastFingerprints /\ httpOK THEN fpsKey ELSE lastFingerprints

\* Reporter.Report. httpOK: the POST is answered with status 200 and a body
\* that parses; otherwise the transport fails, the status is another one or
\* the body does not parse, and Report returns an error.
Report(insights, httpOK) ==
    LET fpsKey    == FpsKey(insights)
        unchanged == fpsKey = lastFingerprints
        entry     == [fps       |-> {insights[i] : i \in DOMAIN insights},
                      key       |-> fpsKey,
                      called    |-> ~unchanged,
                      performed |-> ~unchanged /\ httpOK,
                      failed    |-> ~unchanged /\ ~httpOK]
    IN  /\ Len(reports) < MaxReports
        /\ reports' = Append(reports, entry)
        /\ lastFingerprints' = Remembered(fpsKey, httpOK)
        /\ UNCHANGED allButReporter

NextReporter ==
    \E insights \in Sweeps : \E httpOK \in BOOLEAN : Report(insights, httpOK)

InitReporter ==
    ReporterIdle /\ CoreIdle /\ MuxIdle /\ ValidatorIdle /\ CodecIdle /\ UploadIdle /\ InsightsIdle /\ LaterIdle

SpecReporter == InitReporter /\ [][NextReporter]_vars

(***************************************************************************)
(* Claims about the insight reporter.                                      *)
(***************************************************************************)

\* The Report calls before call i that synced successfully.
SyncedBefore(i) == {j \in 1..(i - 1) : reports[j].performed}

\* The fingerprint set of the last successful sync before call i.
LastSyncedSet(i) ==
    reports[CHOOSE j \in SyncedBefore(i) : \A k \in SyncedBefore(i) : k <= j].fps

\* C12: every Report call makes the HTTP sync call exactly when the
\* fingerprint set of its insights, empty or not, differs from the set of the
\* last successful sync (there being none, it differs), and otherwise returns
\* performed = false without a call.
C12_SyncIffSetChanged ==
    \A i \in DOMAIN reports :
        /\ reports[i].called <=>
              (SyncedBefore(i) = {} \/ reports[i].fps # LastSyncedSet(i))
        /\ ~reports[i].called => (~reports[i].performed /\ ~reports[i].failed)

\* The same with a new reporter counted as having synced the empty set, which
\* is what the empty lastFingerprints of NewReporter amounts to.
SyncIffSetChangedSinceEmpty ==
    \A i \in DOMAIN reports :
        reports[i].called <=>
            reports[i].fps # (IF SyncedBefore(i) = {} THEN {} ELSE LastSyncedSet(i))

\* A Report call whose sync attempt failed returns an error with performed =
\* false and leaves lastFingerprints as it was; lastFingerprints changes only
\* in a call that synced.
FailureKeepsRemembered ==
    reports' # reports =>
        LET call == reports'[Len(reports')]
        IN  /\ call.failed => (~call.performed /\ lastFingerprints' = lastFingerprints)
            /\ lastFingerprints' # lastFingerprints => call.performed

\* The Report call that follows a failed one with the same insights attempts
\* the upload again.
RetriedAfterFailure ==
    \A i \in DOMAIN reports :
        (i > 1 /\ reports[i - 1].failed /\ reports[i].key = reports[i - 1].key)
        => reports[i].called

\* C23: when a sync attempt fails (transport error, status other than 200,
\* or a response body that does not parse), Report returns an error with
\* performed = false and leaves the remembered fingerprints unchanged, so the
\* next Report with the same insights attempts the upload again; the
\* remembered fingerprints change only on a successful sync.
C23_FailedSyncRetried == []RetriedAfterFailure /\ [][FailureKeepsRemembered]_vars

\* C23 witness: after a successful sync a Report of other insights failed,
\* and the next Report, of the same insights, made the sync call again and
\* succeeded.
C23_Witness ==
    /\ Len(reports) = 3
    /\ reports[1].performed
    /\ reports[2].failed
    /\ reports[2].key # reports[1].key
    /\ reports[3].key = reports[2].key
    /\ reports[3].called
    /\ reports[3].performed
    /\ lastFingerprints = reports[3].key

(***************************************************************************)
(*                        SESSION MULTIPLEXER                              *)
(* The agent's session map, written from section 4.5 of the specification: *)
(* of package agent the repository holds the tests only.                   *)
(***************************************************************************)
NumSessionIDs == 3

MaxCap == 2

\* The idle timeout, in ticks.
IdleTimeout == 1

MaxMuxNow == IdleTimeout + 1

\* "maximum concurrent sessions (default 10)"
DefaultMaxSessions == 10

SessionIDs == {"s1", "s2", "s3", "s4"}

IDNumber(id) == CASE id = "s1" -> 1 [] id = "s2" -> 2 [] id = "s3" -> 3 [] id = "s4" -> 4

\* The session IDs the control plane uses.
UsedIDs == {id \in SessionIDs : IDNumber(id) <= NumSessionIDs}

\* New: the cap of the configuration, the default when none is configured.
NewMaxSessions(cfgMax) == IF cfgMax = 0 THEN DefaultMaxSessions ELSE cfgMax

\* "rejects if the cap is met"
CapMet_OffByOne(live, max) == Cardinality(DOMAIN live) > max

CapMet(live, max) == Cardinality(DOMAIN live) >= max

Without(live, gone) == [id \in DOMAIN live \ gone |-> live[id]]

\* The sessions the reaper closes: now - last_activity > idle_timeout.
IdleSessions(live, now) == {id \in DOMAIN live : now - live[id] > IdleTimeout}

\* handleSessionOpen: the permission, the target, the cap, then the session
\* is constructed and stored under its ID.
SessionOpen(id, targetOK) ==
    LET result == IF "terminal" \notin permissions THEN "terminal permission not granted"
                  ELSE IF ~targetOK THEN "invalid target"
                  ELSE IF CapMet(sessions, maxSessions) THEN "max sessions reached"
                  ELSE "ready"
    IN  /\ maxSessions > 0
        /\ muxEvent' = [op |-> "session.open", id |-> id, result |-> result]
        /\ sessions' = IF result = "ready" THEN (id :> muxNow) @@ sessions ELSE sessions
        /\ UNCHANGED <<permissions, maxSessions, muxNow, configured, allButMux>>

\* pty.input: looks the session up and writes to it, which is activity.
PTYInput(id) ==
    /\ maxSessions > 0
    /\ muxEvent' = [op |-> "pty.input", id |-> id,
                    result |-> IF id \in DOMAIN sessions THEN "ok" ELSE "no session"]
    /\ sessions' = IF id \in DOMAIN sessions THEN [sessions EXCEPT ![id] = muxNow]
                   ELSE sessions
    /\ UNCHANGED <<permissions, maxSessions, muxNow, configured, allButMux>>

\* session.close: looks the session up, closes it and drops it from the map.
SessionClose(id) ==
    /\ maxSessions > 0
    /\ muxEvent' = [op |-> "session.close", id |-> id,
                    result |-> IF id \in DOMAIN sessions THEN "ok" ELSE "no session"]
    /\ sessions' = Without(sessions, {id})
    /\ UNCHANGED <<permissions, maxSessions, muxNow, configured, allButMux>>

\* The child of a live session exits: EOF on the PTY ends the session.
ChildExit(id) ==
    /\ id \in DOMAIN sessions
    /\ muxEvent' = [op |-> "child exit", id |-> id, result |-> "ok"]
    /\ sessions' = Without(sessions, {id})
    /\ UNCHANGED <<permissions, maxSessions, muxNow, configured, allButMux>>

\* One scan of the background reaper.
Reap ==
    /\ maxSessions > 0
    /\ IdleSessions(sessions, muxNow) # {}
    /\ muxEvent' = [op |-> "idle timeout", id |-> None, result |-> "ok"]
    /\ sessions' = Without(sessions, IdleSessions(sessions, muxNow))
    /\ UNCHANGED <<permissions, maxSessions, muxNow, configured, allButMux>>

MuxTick ==
    /\ maxSessions > 0
    /\ muxNow < MaxMuxNow
    /\ muxNow' = muxNow + 1
    /\ muxEvent' = [op |-> "tick", id |-> None, result |-> "ok"]
    /\ UNCHANGED <<permissions, maxSessions, sessions, configured, allButMux>>

NextMux ==
    \/ \E id \in UsedIDs : \E targetOK \in BOOLEAN : SessionOpen(id, targetOK)
    \/ \E id \in UsedIDs : PTYInput(id)
    \/ \E id \in UsedIDs : SessionClose(id)
    \/ \E id \in UsedIDs : ChildExit(id)
    \/ Reap
    \/ MuxTick

\* New(Config{Permissions, MaxSessions}) has run.
InitMux ==
    /\ CoreIdle
    /\ ReporterIdle
    /\ ValidatorIdle
    /\ CodecIdle
    /\ UploadIdle
    /\ InsightsIdle /\ LaterIdle
    /\ permissions \in {{"scan"}, {"scan", "terminal"}}
    /\ configured \in 0..MaxCap
    /\ maxSessions = NewMaxSessions(configured)
    /\ sessions = [id \in {} |-> 0]
    /\ muxNow = 0
    /\ muxEvent = NoEvent

SpecMux == InitMux /\ [][NextMux]_vars

(***************************************************************************)
(* Claims about the session multiplexer.                                   *)
(***************************************************************************)

\* The cap in force: the configured one, the default of 10 when none is.
CapInForce == IF configured = 0 THEN 10 ELSE configured

LiveSessions == Cardinality(DOMAIN sessions)

SessionsWithinCap == maxSessions = CapInForce /\ LiveSessions <= CapInForce

\* A session.open handled while the cap is met is rejected and the map is as before.
OpenAtCapRejected ==
    (muxEvent'.op = "session.open" /\ LiveSessions >= CapInForce)
        => (muxEvent'.result # "ready" /\ sessions' = sessions)

\* C13: whatever the order of session.open, session.close, child exits and
\* idle timeouts, the session map never holds more sessions than max_sessions
\* (the default when none is configured), and a session.open that finds the
\* cap met is rejected and creates no session.
C13_SessionCap == []SessionsWithinCap /\ [][OpenAtCapRejected]_vars

\* C13: with the configured cap of sessions live and the idle timeout of the
\* first of them past, a further session.open was turned away.
C13_Witness ==
    /\ muxEvent = [op |-> "session.open", id |-> "s3", result |-> "max sessions reached"]
    /\ LiveSessions = maxSessions
    /\ maxSessions = MaxCap
    /\ muxNow > IdleTimeout

(***************************************************************************)
(*                          TARGET VALIDATOR                               *)
(***************************************************************************)
MaxValueLen == 3

\* const maxNameLen = 253
maxNameLen == 253

Str_host == <<"h", "o", "s", "t">>

Str_lima == <<"l", "i", "m", "a">>

Str_docker == <<"d", "o", "c", "k", "e", "r">>

Str_k8s_pod == <<"k", "8", "s", "-", "p", "o", "d">>

Str_podman == <<"p", "o", "d", "m", "a", "n">>

Str_bin_bash == <<"/", "b", "i", "n", "/", "b", "a", "s", "h">>

Str_bin_sh == <<"/", "b", "i", "n", "/", "s", "h">>

Str_bin_zsh == <<"/", "b", "i", "n", "/", "z", "s", "h">>

Str_python3 == <<"p", "y", "t", "h", "o", "n", "3">>

Str_usr_bin_python3 == <<"/", "u", "s", "r", "/", "b", "i", "n", "/", "p", "y", "t", "h", "o", "n", "3">>

Str_web_0 == <<"w", "e", "b", "-", "0">>

Str_dash_c == <<"-", "c">>

allowedTargetTypes == {Str_host, Str_lima, Str_docker, Str_k8s_pod}

allowedShells == {Str_bin_bash, Str_bin_sh, Str_bin_zsh, <<>>}

allowedRuntimes == {Str_docker, Str_podman, <<>>}

Letters ==
    {"a", "b", "c", "d", "e", "h", "i", "k", "l", "m", "n", "o", "p", "r", "s", "t",
     "u", "w", "y", "z"}

Digits == {"0", "3", "8"}

\* [a-zA-Z0-9]
AlphaNumeric == Letters \cup Digits

\* [a-zA-Z0-9._-]
NameChar == AlphaNumeric \cup {".", "_", "-"}

\* containerNameRe.MatchString: ^[a-zA-Z0-9][a-zA-Z0-9._-]*$
containerNameRe(val) ==
    /\ val # <<>>
    /\ val[1] \in AlphaNumeric
    /\ \A i \in 2..Len(val) : val[i] \in NameChar

\* The fields the loop of ValidateTerminalTarget ranges over.
NameFields == {"container", "pod", "namespace", "name"}

FieldValue(t, field) ==
    CASE field = "container" -> t.Container
      [] field = "pod" -> t.Pod
      [] field = "namespace" -> t.Namespace
      [] field = "name" -> t.Name
      [] field = "shell" -> t.Shell
      [] field = "runtime" -> t.Runtime
      [] field = "type" -> t.Type

\* What one pass of the loop body returns for a field: nil to go on, or an error.
NameError(field, val) ==
    IF val = <<>> THEN NoError
    ELSE IF Len(val) > maxNameLen THEN [msg |-> "name too long", field |-> field]
    ELSE IF ~containerNameRe(val) THEN [msg |-> "invalid name", field |-> field]
    ELSE NoError

ValidateTerminalTarget_NamesFirst(t) ==
    IF t.nil THEN {NoError}
    ELSE LET bad == {field \in NameFields : NameError(field, FieldValue(t, field)) # NoError}
         IN  IF bad # {} THEN {NameError(field, FieldValue(t, field)) : field \in bad}
             ELSE IF t.Type \notin allowedTargetTypes
                  THEN {[msg |-> "invalid target type", field |-> "type"]}
             ELSE IF t.Shell \notin allowedShells THEN {[msg |-> "invalid shell", field |-> "shell"]}
             ELSE IF t.Runtime \notin allowedRuntimes
                  THEN {[msg |-> "invalid runtime", field |-> "runtime"]}
             ELSE {NoError}

\* ValidateTerminalTarget: the errors the call can return. The loop ranges
\* over a Go map, whose order differs from run to run, so with several bad
\* name fields the error is that of any one of them.
ValidateTerminalTarget(t) ==
    IF t.nil THEN {NoError}
    ELSE IF t.Type \notin allowedTargetTypes THEN {[msg |-> "invalid target type", field |-> "type"]}
    ELSE IF t.Shell \notin allowedShells THEN {[msg |-> "invalid shell", field |-> "shell"]}
    ELSE IF t.Runtime \notin allowedRuntimes THEN {[msg |-> "invalid runtime", field |-> "runtime"]}
    ELSE LET bad == {field \in NameFields : NameError(field, FieldValue(t, field)) # NoError}
         IN  IF bad = {} THEN {NoError}
             ELSE {NameError(field, FieldValue(t, field)) : field \in bad}

\* The characters of the values tried.
Alphabet == {"a", "-", ".", ";", "|", "&", " "}

\* "a" repeated maxNameLen and maxNameLen + 1 times.
LongValues == {[i \in 1..n |-> "a"] : n \in {maxNameLen, maxNameLen + 1}}

\* The values a field is tried with.
Values ==
    UNION {[1..n -> Alphabet] : n \in 0..MaxValueLen}
        \cup LongValues \cup {Str_usr_bin_python3, Str_dash_c, Str_python3}
        \cup allowedTargetTypes \cup allowedShells \cup allowedRuntimes

Target(type, shell, runtime, container, pod, namespace, name) ==
    [nil |-> FALSE, Type |-> type, Shell |-> shell, Runtime |-> runtime,
     Container |-> container, Pod |-> pod, Namespace |-> namespace, Name |-> name]

\* Targets over the allowlists and what lies just outside them, with a good,
\* a bad or no container name.
AllowlistTargets ==
    {Target(type, shell, runtime, container, <<>>, <<>>, <<>>) :
        type \in allowedTargetTypes \cup {Str_python3, <<>>},
        shell \in allowedShells \cup {Str_python3},
        runtime \in allowedRuntimes \cup {Str_usr_bin_python3},
        container \in {<<>>, Str_web_0, Str_dash_c}}

\* Well-formed targets, to have one field replaced.
BaseTargets ==
    {Target(type, shell, runtime, n, n, n, n) :
        type \in {Str_host, Str_docker},
        shell \in {<<>>, Str_bin_sh},
        runtime \in {<<>>, Str_docker},
        n \in {<<>>, Str_web_0}}

WithField(t, field, val) ==
    CASE field = "container" -> [t EXCEPT !.Container = val]
      [] field = "pod" -> [t EXCEPT !.Pod = val]
      [] field = "namespace" -> [t EXCEPT !.Namespace = val]
      [] field = "name" -> [t EXCEPT !.Name = val]
      [] field = "shell" -> [t EXCEPT !.Shell = val]
      [] field = "runtime" -> [t EXCEPT !.Runtime = val]

\* A call of ValidateTerminalTarget.
Validate(t) ==
    /\ verr = NotCalled
    /\ vtarget' = t
    /\ verr' \in ValidateTerminalTarget(t)
    /\ UNCHANGED allButValidator

\* The caller takes the error and goes on to the next message.
TakeError ==
    /\ verr # NotCalled
    /\ vtarget' = NilTarget
    /\ verr' = NotCalled
    /\ UNCHANGED allButValidator

NextValidator ==
    \/ TakeError
    \/ /\ verr = NotCalled
       /\ \E t \in AllowlistTargets \cup {NilTarget} : Validate(t)
    \/ /\ verr = NotCalled
       /\ \E t \in BaseTargets : \E field \in NameFields \cup {"shell", "runtime"} :
              \E val \in Values : Validate(WithField(t, field, val))

InitValidator ==
    ValidatorIdle /\ CoreIdle /\ ReporterIdle /\ MuxIdle /\ CodecIdle /\ UploadIdle /\ InsightsIdle /\ LaterIdle

SpecValidator == InitValidator /\ [][NextValidator]_vars

(***************************************************************************)
(* Claims about the target validator.                                      *)
(***************************************************************************)

\* The value holds the characters of sub in a row.
Contains(val, sub) ==
    \E i \in 1..(Len(val) - Len(sub) + 1) :
        \A j \in 1..Len(sub) : val[i + j - 1] = sub[j]

\* What the injection-resistance property forbids in a value.
Dangerous(val) ==
    \/ \E bad \in {";", "|", "&", " "} : Contains(val, <<bad>>)
    \/ Contains(val, <<".", ".">>)
    \/ (val # <<>> /\ val[1] = "-")
    \/ Len(val) > 253

\* C14: whenever the container, pod, namespace, VM name, shell or runtime of
\* the target validated holds ';', '|', '&', a space or '..', begins with '-'
\* or is longer than 253 characters, ValidateTerminalTarget returned an error.
C14_DangerousValueRejected ==
    (verr # NotCalled /\ ~vtarget.nil /\ \E field \in NameFields \cup {"shell", "runtime"} :
                        Dangerous(FieldValue(vtarget, field)))
        => verr # NoError

\* The same without '..': every other forbidden shape is turned away, so the
\* values that get through are those whose only fault is a run of dots after
\* the first character, which containerNameRe admits.
DangerousButDotsRejected ==
    (verr # NotCalled /\ ~vtarget.nil /\ \E field \in NameFields \cup {"shell", "runtime"} :
        LET val == FieldValue(vtarget, field)
        IN  \/ \E bad \in {";", "|", "&", " "} : Contains(val, <<bad>>)
            \/ (val # <<>> /\ val[1] = "-")
            \/ Len(val) > 253)
        => verr # NoError

\* The allowlists as the specification gives them.
TypesOfSpec == {Str_host, Str_lima, Str_docker, Str_k8s_pod}

ShellsOfSpec == {Str_bin_bash, Str_bin_sh, Str_bin_zsh, <<>>}

RuntimesOfSpec == {Str_docker, Str_podman}

\* {type: docker, runtime: /usr/bin/python3, container: -c}
InjectionExample ==
    Target(Str_docker, <<>>, Str_usr_bin_python3, Str_dash_c, <<>>, <<>>, <<>>)

Validated == verr # NotCalled /\ ~vtarget.nil

\* The type, then the shell, then the runtime decide the error, whatever the names.
CheckedInOrder(runtimes) ==
    Validated =>
        /\ vtarget.Type \notin TypesOfSpec => verr.msg = "invalid target type"
        /\ (vtarget.Type \in TypesOfSpec /\ vtarget.Shell \notin ShellsOfSpec)
               => verr.msg = "invalid shell"
        /\ (vtarget.Type \in TypesOfSpec /\ vtarget.Shell \in ShellsOfSpec
                /\ vtarget.Runtime \notin runtimes)
               => verr.msg = "invalid runtime"
        /\ vtarget = InjectionExample => verr.msg = "invalid runtime"

\* C15 as stated: every target validated whose type is outside {host, lima,
\* docker, k8s-pod}, whose shell is outside {/bin/bash, /bin/sh, /bin/zsh,
\* empty} or whose runtime is not docker or podman was rejected, with the
\* error of the type, else of the shell, else of the runtime, before any name
\* was looked at.
C15_RuntimeDockerOrPodman == CheckedInOrder(RuntimesOfSpec)

\* C15, amended: the same with the empty runtime allowed, as the empty shell is.
C15_AllowlistsInOrder == CheckedInOrder(RuntimesOfSpec \cup {<<>>})

\* C15: the injection example was validated and turned away for its runtime.
C15_Witness ==
    /\ vtarget = InjectionExample
    /\ verr = [msg |-> "invalid runtime", field |-> "runtime"]

(***************************************************************************)
(*                    SIGNED MESSAGES ON THE WIRE                          *)
(* Sign and Verify on the bytes of a message. The bytes of a JSON object   *)
(* are the sequence of its members in the order they are written; a value  *)
(* is a string, a number or a nested object.                               *)
(***************************************************************************)

\* The object keys in use, in the byte order json.Marshal sorts map keys by.
KeyOrder ==
    <<"container", "hostId", "nonce", "origin", "sessionId", "signature",
      "target", "timestamp", "type", "user_id">>

EmptyPayload ==
    [command |-> <<>>, timestamp |-> 0, nonce |-> "", user_id |-> "", origin |-> ""]

\* A JSON value that is no signature.
NoSig == [enc |-> "absent", key |-> "", over |-> EmptyPayload]

JString(str) == [kind |-> "string", str |-> str, num |-> 0, members |-> <<>>, sig |-> NoSig]

JNumber(num) == [kind |-> "number", str |-> "", num |-> num, members |-> <<>>, sig |-> NoSig]

JObject(members) ==
    [kind |-> "object", str |-> "", num |-> 0, members |-> members, sig |-> NoSig]

\* The JSON string that holds the base64 of a signature.
JSignature(sig) ==
    [kind |-> "string", str |-> "base64", num |-> 0, members |-> <<>>, sig |-> sig]

Member(key, val) == [key |-> key, val |-> val]

\* json.Unmarshal(raw, &m), m a map[string]json.RawMessage: every key with
\* the bytes of its value, the last one when a key is written twice.
UnmarshalMap(raw) ==
    [k \in {raw[i].key : i \in DOMAIN raw} |->
        raw[CHOOSE i \in DOMAIN raw :
                /\ raw[i].key = k
                /\ \A j \in DOMAIN raw : raw[j].key = k => j <= i].val]

\* json.Marshal(m) of such a map: the keys sorted, each value's bytes as they
\* are (a nested object keeps the order of its keys).
MarshalMap(m) ==
    LET Present(k) == k \in DOMAIN m
        ks == SelectSeq(KeyOrder, Present)
    IN  [i \in 1..Len(ks) |-> Member(ks[i], m[ks[i]])]

normalizeJSON(raw) == MarshalMap(UnmarshalMap(raw))

EnvelopeFields == {"signature", "timestamp", "nonce", "user_id", "origin"}

Restrict(m, keys) == [k \in DOMAIN m \cap keys |-> m[k]]

stripSigningFields_KeepsOrigin(raw) ==
    LET m == UnmarshalMap(raw)
    IN  MarshalMap(Restrict(m, DOMAIN m \ (EnvelopeFields \ {"origin"})))

stripSigningFields(raw) ==
    LET m == UnmarshalMap(raw)
    IN  MarshalMap(Restrict(m, DOMAIN m \ EnvelopeFields))

\* json.Marshal(SignedPayload{...}): the struct's fields in their order.
SignedPayload(command, timestamp, nonce, userID, origin) ==
    [command |-> command, timestamp |-> timestamp, nonce |-> nonce,
     user_id |-> userID, origin |-> origin]

\* Sign: the bytes of the signed message.
Sign(privKey, command, timestamp, nonce, userID, origin) ==
    LET cmd == normalizeJSON(command)
        sig == Ed25519Sign(privKey, SignedPayload(cmd, timestamp, nonce, userID, origin))
        m   == UnmarshalMap(cmd)
    IN  MarshalMap([k \in DOMAIN m \cup EnvelopeFields |->
                       CASE k = "signature" -> JSignature(sig)
                         [] k = "timestamp" -> JNumber(timestamp)
                         [] k = "nonce"     -> JString(nonce)
                         [] k = "user_id"   -> JString(userID)
                         [] k = "origin"    -> JString(origin)
                         [] OTHER           -> m[k]])

\* json.Unmarshal(raw, &env) of Verify, env a SignedEnvelope, together with
\* the command Verify extracts: a field that is absent is left zero.
ParseEnvelope(raw) ==
    LET m == UnmarshalMap(raw)
        Str(k) == IF k \in DOMAIN m THEN m[k].str ELSE ""
    IN  [json      |-> /\ \A k \in DOMAIN m \cap (EnvelopeFields \ {"timestamp"}) :
                              m[k].kind = "string"
                       /\ "timestamp" \in DOMAIN m => m["timestamp"].kind = "number",
         signature |-> IF "signature" \in DOMAIN m THEN m["signature"].sig ELSE NoSig,
         timestamp |-> IF "timestamp" \in DOMAIN m THEN m["timestamp"].num ELSE 0,
         nonce     |-> Str("nonce"),
         user_id   |-> Str("user_id"),
         origin    |-> Str("origin"),
         command   |-> stripSigningFields(raw)]

\* Verifier.Verify(raw) at time at, on a nonce store: the command and the
\* result it returns and the store it leaves.
VerifyBytes(raw, at, store, gc) ==
    LET env   == ParseEnvelope(raw)
        early == EarlyReject(env, Unix(at))
        added == NonceStoreAdd(store, gc, env.nonce, at)
        why   == IF early # None THEN early
                 ELSE IF ~added.ok THEN "duplicate nonce (replay detected)"
                 ELSE SignatureReject(env)
    IN  [valid   |-> why = None,
         reason  |-> why,
         command |-> IF why = None THEN env.command ELSE <<>>,
         nonces  |-> IF early # None THEN store ELSE added.nonces,
         lastGC  |-> IF early # None THEN gc ELSE added.lastGC]

Orderings(S) ==
    {f \in [1..Cardinality(S) -> S] : \A i, j \in 1..Cardinality(S) : f[i] = f[j] => i = j}

\* The nested target object, its keys written in either order.
TargetObjects ==
    {JObject(f) : f \in Orderings({Member("type", JString("docker")),
                                       Member("container", JString("web"))})}

\* The command objects handed to Sign, their keys in any order.
SignedCommands ==
    LET type      == Member("type", JString("session.open"))
        sessionId == Member("sessionId", JString("s1"))
    IN  UNION ({Orderings({type}), Orderings({type, sessionId})}
                 \cup {Orderings({type, Member("target", o)}) : o \in TargetObjects}
                 \cup {Orderings({type, sessionId, Member("target", o)}) :
                          o \in TargetObjects})

\* The sender signs a command and sends it.
SignAndSend(privKey, command, timestamp, nonce) ==
    LET bytes == Sign(privKey, command, timestamp, nonce, "admin", "saas")
    IN  /\ wire = <<>>
        /\ wire' = bytes
        /\ sent' = [key |-> privKey, command |-> command, timestamp |-> timestamp,
                    nonce |-> nonce, user_id |-> "admin", origin |-> "saas",
                    bytes |-> bytes, changed |-> None]
        /\ UNCHANGED <<vout, verifierVars, allButCodec>>

Swap(seq, i, j) ==
    [k \in DOMAIN seq |-> IF k = i THEN seq[j] ELSE IF k = j THEN seq[i] ELSE seq[k]]

InFlight == wire # <<>> /\ vout = NoOut /\ sent.changed = None

\* On its way the message is encoded anew with two of its keys in another order.
ReorderKeys(i, j) ==
    /\ InFlight
    /\ i < j
    /\ j <= Len(wire)
    /\ wire' = Swap(wire, i, j)
    /\ sent' = [sent EXCEPT !.changed = "keys reordered"]
    /\ UNCHANGED <<vout, verifierVars, allButCodec>>

\* The same inside the nested target object.
ReorderNestedKeys ==
    /\ InFlight
    /\ \E i \in DOMAIN wire :
          /\ wire[i].key = "target"
          /\ wire' = [wire EXCEPT ![i].val.members = Swap(@, 1, 2)]
    /\ sent' = [sent EXCEPT !.changed = "nested keys reordered"]
    /\ UNCHANGED <<vout, verifierVars, allButCodec>>

\* The values a field of the message may be replaced with on the way.
TamperValues(k) ==
    CASE k = "timestamp" -> {JNumber(ts) : ts \in TimestampChoices}
      [] k = "nonce"     -> {JString(n) : n \in NonceNames}
      [] k = "user_id"   -> {JString("eve")}
      [] k = "origin"    -> {JString("evil")}
      [] OTHER           -> {JString("evil")}

TamperKeys == {"type", "sessionId", "target", "hostId", "timestamp", "nonce", "user_id", "origin"}

\* On its way a field of the message is set to another value, or added.
TamperSet(k, v) ==
    LET m == UnmarshalMap(wire)
    IN  /\ InFlight
        /\ k \in DOMAIN m => m[k] # v
        /\ wire' = MarshalMap([f \in DOMAIN m \cup {k} |-> IF f = k THEN v ELSE m[f]])
        /\ sent' = [sent EXCEPT !.changed =
                       IF k \in EnvelopeFields THEN "envelope changed"
                       ELSE IF k \in DOMAIN m THEN "field changed" ELSE "field added"]
        /\ UNCHANGED <<vout, verifierVars, allButCodec>>

\* On its way a command field of the message is removed.
TamperRemove(k) ==
    LET m == UnmarshalMap(wire)
    IN  /\ InFlight
        /\ k \in DOMAIN m \ EnvelopeFields
        /\ wire' = MarshalMap(Restrict(m, DOMAIN m \ {k}))
        /\ sent' = [sent EXCEPT !.changed = "field removed"]
        /\ UNCHANGED <<vout, verifierVars, allButCodec>>

\* The agent calls Verify on the bytes that arrived.
VerifyWire ==
    LET out == VerifyBytes(wire, clock, nonces, lastGC)
    IN  /\ wire # <<>>
        /\ vout = NoOut
        /\ vout' = [valid |-> out.valid, reason |-> out.reason, command |-> out.command]
        /\ nonces' = out.nonces
        /\ lastGC' = out.lastGC
        /\ UNCHANGED <<wire, sent, clock, last, acceptLog, rejectLog, allButCodec>>

\* The agent takes the result and waits for the next message.
TakeVerified ==
    /\ vout # NoOut
    /\ wire' = <<>>
    /\ sent' = NoSent
    /\ vout' = NoOut
    /\ UNCHANGED <<verifierVars, allButCodec>>

MaxMembers == Len(KeyOrder) - 2

NextCodec ==
    \/ /\ wire = <<>>
       /\ \E privKey \in {TrustedKey, OtherKey} : \E command \in SignedCommands :
             \E timestamp \in TimestampChoices : \E nonce \in NonceNames :
                SignAndSend(privKey, command, timestamp, nonce)
    \/ \E i, j \in 1..MaxMembers : ReorderKeys(i, j)
    \/ ReorderNestedKeys
    \/ \E k \in TamperKeys : \E v \in TamperValues(k) : TamperSet(k, v)
    \/ \E k \in TamperKeys : TamperRemove(k)
    \/ VerifyWire
    \/ TakeVerified

InitCodec ==
    CodecIdle /\ CoreIdle /\ ReporterIdle /\ MuxIdle /\ ValidatorIdle /\ UploadIdle /\ InsightsIdle /\ LaterIdle

SpecCodec == InitCodec /\ [][NextCodec]_vars

(***************************************************************************)
(* Claims about signed messages on the wire.                               *)
(***************************************************************************)

\* A Verify call on the bytes in flight returns in this step.
VerifyReturns == vout = NoOut /\ vout' # NoOut

EnvelopeNames == {"signature", "timestamp", "nonce", "user_id", "origin"}

\* The command fields of a message: its members but the envelope's, as pairs.
CommandFields(raw) ==
    {<<raw[i].key, raw[i].val>> : i \in {n \in DOMAIN raw : raw[n].key \notin EnvelopeNames}}

\* The message in flight is what Sign returned, signed with the agent's key,
\* its timestamp within the freshness window and its nonce not in the store.
FreshFromSign ==
    /\ sent.changed = None
    /\ sent.key = TrustedKey
    /\ Abs(Unix(clock) - sent.timestamp) <= MaxTimestampAge
    /\ sent.nonce \notin DOMAIN nonces

RoundTrip ==
    (VerifyReturns /\ FreshFromSign)
        => /\ vout'.valid
           /\ CommandFields(sent.command) \subseteq CommandFields(vout'.command)
           /\ \A i \in DOMAIN vout'.command : vout'.command[i].key \notin EnvelopeNames

\* C16: Verify of what Sign returned, with the matching key, a timestamp
\* within the freshness window and an unused nonce, returns valid = true and
\* a command that has every field of the original with an equal value and
\* none of signature, timestamp, nonce, user_id and origin.
C16_RoundTrip == [][RoundTrip]_vars

\* C16: a command written as type, target, sessionId was signed and verified,
\* and came back valid with its three fields in sorted order.
C16_Witness ==
    /\ vout.valid
    /\ sent.changed = None
    /\ Len(sent.command) = 3
    /\ sent.command[1].key = "type"
    /\ vout.command # sent.command
    /\ CommandFields(vout.command) = CommandFields(sent.command)

\* What Verify returns for the bytes Sign made, in the state at hand.
OutcomeOfSigned == VerifyBytes(sent.bytes, clock, nonces, lastGC)

SameOutcomeReordered(kinds) ==
    (VerifyReturns /\ sent.changed \in kinds)
        => (vout'.valid = OutcomeOfSigned.valid /\ vout'.reason = OutcomeOfSigned.reason)

\* C17: a message whose keys were put in another order on the way, at the top
\* level or inside the nested target object, gets the same Verify outcome as
\* the bytes that were signed get in the same state.
C17_KeyOrderIndependent ==
    [][SameOutcomeReordered({"keys reordered", "nested keys reordered"})]_vars

\* The same for the keys of the top level alone, which stripSigningFields sorts.
TopLevelOrderIndependent == [][SameOutcomeReordered({"keys reordered"})]_vars

\* The value of an envelope field of the bytes.
Received(raw, k) == {raw[i].val : i \in {n \in DOMAIN raw : raw[n].key = k}}

\* The bytes received carry the command fields and the four envelope values
\* that were signed, and the signature is the agent's key's.
SignedAsReceived ==
    /\ sent.key = TrustedKey
    /\ CommandFields(wire) = CommandFields(sent.command)
    /\ Received(wire, "timestamp") = {JNumber(sent.timestamp)}
    /\ Received(wire, "nonce") = {JString(sent.nonce)}
    /\ Received(wire, "user_id") = {JString(sent.user_id)}
    /\ Received(wire, "origin") = {JString(sent.origin)}

\* C18: Verify returns valid = true only when the signature was made with the
\* key matching the verifier's over exactly the command fields and the
\* timestamp, nonce, user_id and origin received: after a command field was
\* changed, added or removed, after one of the four envelope values was
\* changed, or with another key's signature, it returns valid = false.
C18_ValidOnlySignedAsReceived ==
    [][(VerifyReturns /\ vout'.valid) => SignedAsReceived]_vars

\* C18: a message signed with the agent's key had a command field changed on
\* the way and failed the signature check.
C18_Witness ==
    /\ sent.key = TrustedKey
    /\ sent.changed = "field changed"
    /\ ~vout.valid
    /\ vout.reason = "signature verification failed"

(***************************************************************************)
(*                          UPLOAD FAN-OUT                                 *)
(***************************************************************************)
MaxUpstreams == 3

UpstreamNames == <<"A", "B", "C", "D">>

Collected_LastWins(first, errs, r) ==
    IF ~r.ok THEN [firstResp |-> None, errors |-> Append(errs, r.name)]
    ELSE [firstResp |-> r.name, errors |-> errs]

\* The body of the receiving loop of Upload for one result r: the new
\* firstResp and errors.
Collected(first, errs, r) ==
    IF ~r.ok THEN [firstResp |-> first, errors |-> Append(errs, r.name)]
    ELSE [firstResp |-> IF first = None THEN r.name ELSE first, errors |-> errs]

\* The end of Upload: the first response, or the error of all upstreams.
Returned(first) ==
    IF first # None THEN [resp |-> first, err |-> None]
    ELSE [resp |-> None, err |-> "all upstreams failed"]

\* namedClient.token of the upstream: Upstream.Token of its configuration.
TokenOf(u) == "token-" \o u

\* The requests handed to Upload: with the token of the first upstream or
\* with none, with or without a cluster scan.
CallerRequests ==
    {[AgentToken |-> t, Cluster |-> c, Meta |-> "meta"] :
        t \in {"", TokenOf("A")}, c \in {"", "{}"}}

\* json.Marshal(req): the members in the order of the struct's fields;
\* cluster has omitempty.
MarshalRequest(req) ==
    <<<<"agent_token", req.AgentToken>>>>
    \o (IF req.Cluster = "" THEN <<>> ELSE <<<<"cluster", req.Cluster>>>>)
    \o <<<<"meta", req.Meta>>>>

\* json.Unmarshal(baseBody, &upstreamReq) into the zero value: the fields
\* whose members the body holds.
UnmarshalRequest(body) ==
    LET Value(key, zero) ==
            IF \E i \in DOMAIN body : body[i][1] = key
            THEN body[CHOOSE i \in DOMAIN body : body[i][1] = key][2]
            ELSE zero
    IN  [AgentToken |-> Value("agent_token", NoRequest.AgentToken),
         Cluster    |-> Value("cluster", NoRequest.Cluster),
         Meta       |-> Value("meta", NoRequest.Meta)]

\* The decoded request is sent as it is, with the token the caller put in.
WithToken_OfCaller(req, u) == req

\* upstreamReq.AgentToken = u.token
WithToken(req, u) == [req EXCEPT !.AgentToken = TokenOf(u)]

\* MultiClient.Upload up to its receiving loop: without upstreams or with a
\* request that does not marshal it returns an error; else it starts one
\* goroutine for every upstream.
UploadBegin(marshalOK) ==
    /\ ret = NoReturn
    /\ \A u \in DOMAIN upc : upc[u] = "idle"
    /\ IF Len(upstreams) = 0
       THEN ret' = [resp |-> None, err |-> "no upstreams configured"] /\ upc' = upc
       ELSE IF ~marshalOK
       THEN ret' = [resp |-> None, err |-> "marshal request"] /\ upc' = upc
       ELSE ret' = ret /\ upc' = [u \in DOMAIN upc |-> "running"]
    /\ baseBody' = IF Len(upstreams) # 0 /\ marshalOK THEN MarshalRequest(callerReq)
                   ELSE baseBody
    /\ UNCHANGED <<upstreams, accepted, ch, arrivals, firstResp, errors,
                   callerReq, upstreamReq, attempts, allButUpload>>

\* The goroutine of upstream u, before it calls Client.Upload: its own
\* request, decoded from baseBody, with the token of u.
UpstreamPrepare(u) ==
    /\ upc[u] = "running"
    /\ upc' = [upc EXCEPT ![u] = "ready"]
    /\ upstreamReq' = [upstreamReq EXCEPT ![u] = WithToken(UnmarshalRequest(baseBody), u)]
    /\ UNCHANGED <<upstreams, accepted, ch, arrivals, firstResp, errors, ret,
                   callerReq, baseBody, attempts, allButUpload>>

\* The goroutine of upstream u: Client.Upload returns, with a response or with
\* an error, and the result goes into the channel, which has room for all.
UpstreamDone(u, ok) ==
    /\ upc[u] = "ready"
    /\ upc' = [upc EXCEPT ![u] = "done"]
    /\ attempts' = Append(attempts, [upstream |-> u, request |-> upstreamReq[u]])
    /\ accepted' = IF ok THEN accepted \cup {u} ELSE accepted
    /\ ch' = Append(ch, [name |-> u, ok |-> ok])
    /\ UNCHANGED <<upstreams, arrivals, firstResp, errors, ret,
                   callerReq, baseBody, upstreamReq, allButUpload>>

\* One round of the receiving loop; after the last round Upload returns.
Receive ==
    LET c == Collected(firstResp, errors, Head(ch))
    IN  /\ ret = NoReturn
        /\ ch # <<>>
        /\ ch' = Tail(ch)
        /\ arrivals' = Append(arrivals, Head(ch).name)
        /\ firstResp' = c.firstResp
        /\ errors' = c.errors
        /\ ret' = IF Len(arrivals') = Len(upstreams) THEN Returned(c.firstResp) ELSE ret
        /\ UNCHANGED <<upstreams, upc, accepted,
                       callerReq, baseBody, upstreamReq, attempts, allButUpload>>

NextUpload ==
    \/ \E marshalOK \in BOOLEAN : UploadBegin(marshalOK)
    \/ \E u \in DOMAIN upc : UpstreamPrepare(u)
    \/ \E u \in DOMAIN upc : \E ok \in BOOLEAN : UpstreamDone(u, ok)
    \/ Receive

\* NewMultiClient(upstreams) with up to MaxUpstreams upstreams.
InitUpload ==
    /\ CoreIdle /\ ReporterIdle /\ MuxIdle /\ ValidatorIdle /\ CodecIdle /\ InsightsIdle /\ LaterIdle
    /\ \E n \in 0..MaxUpstreams : upstreams = SubSeq(UpstreamNames, 1, n)
    /\ upc = [u \in {upstreams[i] : i \in DOMAIN upstreams} |-> "idle"]
    /\ accepted = {}
    /\ ch = <<>>
    /\ arrivals = <<>>
    /\ firstResp = None
    /\ errors = <<>>
    /\ ret = NoReturn
    /\ callerReq \in CallerRequests
    /\ baseBody = <<>>
    /\ upstreamReq = [u \in DOMAIN upc |-> NoRequest]
    /\ attempts = <<>>

SpecUpload == InitUpload /\ [][NextUpload]_vars

(***************************************************************************)
(* Claims about the upload fan-out.                                        *)
(***************************************************************************)

\* C19: when Upload has returned, it returned a response and no error exactly
\* if at least one upstream accepted the upload, and an error and no response
\* exactly if none did (all failed, none is configured, or none was tried);
\* the response is that of an upstream that accepted. So with A failing and
\* B accepting the call succeeds in whatever order the two finish.
C19_SuccessIffOneAccepted ==
    ret # NoReturn =>
        /\ (ret.err = None /\ ret.resp # None) <=> accepted # {}
        /\ (ret.err # None /\ ret.resp = None) <=> accepted = {}
        /\ ret.resp # None => ret.resp \in accepted

\* C19: of two upstreams A failed and its result was received first, B
\* accepted, and Upload returned B's response.
C19_Witness ==
    /\ upstreams = <<"A", "B">>
    /\ arrivals = <<"A", "B">>
    /\ accepted = {"B"}
    /\ ret = [resp |-> "B", err |-> None]

\* The Client.Upload calls made on upstream u.
AttemptsOn(u) == {i \in DOMAIN attempts : attempts[i].upstream = u}

\* Upload went as far as the fan-out and has returned.
FannedOutAndReturned ==
    /\ ret # NoReturn
    /\ ret.err \notin {"no upstreams configured", "marshal request"}

\* No upstream is tried twice, every request carries the token of the
\* upstream it is sent to, and when the call returns every configured
\* upstream has been tried.
OneAttemptWithOwnToken ==
    /\ \A i \in DOMAIN upstreams : Cardinality(AttemptsOn(upstreams[i])) <= 1
    /\ \A i \in DOMAIN attempts :
          attempts[i].request.AgentToken = "token-" \o attempts[i].upstream
    /\ FannedOutAndReturned =>
          \A i \in DOMAIN upstreams : Cardinality(AttemptsOn(upstreams[i])) = 1

\* The request of the caller is never written.
CallerRequestKept == callerReq' = callerReq

\* C27: in a fan-out of Upload every configured upstream gets exactly one
\* upload attempt, whatever the outcome of the others and the order in which
\* the goroutines run; the request sent to upstream u carries u's own token
\* as agent_token; and the request object of the caller is not modified.
C27_OneAttemptOwnToken == []OneAttemptWithOwnToken /\ [][CallerRequestKept]_vars

\* C27 witness: of three upstreams B was tried first and failed, then C and A
\* were tried; A got token-A and C token-C while the caller's request, which
\* holds token-A, is as it was; Upload has returned.
C27_Witness ==
    /\ upstreams = <<"A", "B", "C">>
    /\ ret # NoReturn
    /\ Len(attempts) = 3
    /\ attempts[1].upstream = "B"
    /\ "B" \notin accepted
    /\ attempts[2].upstream = "C"
    /\ attempts[2].request.AgentToken = "token-C"
    /\ attempts[3].upstream = "A"
    /\ callerReq.AgentToken = "token-A"
    /\ callerReq.Cluster = "{}"

(***************************************************************************)
(*                     ANALYZERS AND FINGERPRINTS                          *)
(***************************************************************************)
MaxObjects == 2

\* MakeFingerprint: the first 8 bytes of the SHA-256 of
\* "analyzer:kind:namespace:name", in hex. The hash is symbolic: free of
\* collisions.
MakeFingerprint(analyzerTag, kind, namespace, name) ==
    [hexChars |-> 16,
     sha256Of |-> analyzerTag \o ":" \o kind \o ":" \o namespace \o ":" \o name]

\* For each built-in analyzer, the insights it can make of one object: the
\* first argument it hands to MakeFingerprint, the kind of the target, and
\* whether the target has a namespace (the argument of Analyze).
Emits(tag, kind, namespaced) == [tag |-> tag, kind |-> kind, namespaced |-> namespaced]

Workloads == {"Deployment", "StatefulSet", "DaemonSet"}

Emitters ==
    [stale_pods        |-> {Emits("stale_pods", "Pod", TRUE)},
     evicted_pods      |-> {Emits("evicted_pods", "Pod", TRUE)},
     stuck_terminating |-> {Emits("stuck_terminating", "Pod", TRUE)},
     image_pull_issues |-> {Emits("image_pull_issues", "Pod", TRUE)},
     stale_pv_affinity |-> {Emits("stale_pv_affinity", "PersistentVolumeClaim", TRUE)},
     crashlooping      |-> {Emits("crashlooping", k, TRUE) : k \in Workloads \cup {"Pod"}},
     missing_limits    |-> {Emits("missing_limits", k, TRUE) : k \in Workloads},
     missing_probes    |-> {Emits("missing_probes", k, TRUE) : k \in Workloads},
     unready_workloads |-> {Emits("unready_workloads", k, TRUE) :
                               k \in {"Deployment", "StatefulSet"}},
     resource_pressure |-> {Emits("resource_pressure_mem", "Node", FALSE),
                            Emits("resource_pressure_disk", "Node", FALSE),
                            Emits("resource_pressure_pid", "Node", FALSE)}]

Analyzers == DOMAIN Emitters

\* The ClusterInsight literal of an analyzer, as far as the fingerprint goes.
ClusterInsight(name, e, namespace, target) ==
    LET ns == IF e.namespaced THEN namespace ELSE ""
    IN  [Analyzer    |-> name,
         TargetKind  |-> e.kind,
         TargetNS    |-> ns,
         TargetName  |-> target,
         Fingerprint |-> MakeFingerprint(e.tag, e.kind, ns, target)]

ObjectNames == <<"a", "b", "c">>

\* The names of the objects of the cluster.
Objects == {ObjectNames[i] : i \in 1..MaxObjects}

\* Analyze of one analyzer on one namespace: an insight for each object that
\* shows one of the conditions the analyzer looks for.
Analyze(name, namespace, hits) ==
    /\ analyzer' = name
    /\ found' = {ClusterInsight(name, h[1], namespace, h[2]) : h \in hits}
    /\ UNCHANGED allButInsights

\* The engine takes the insights and goes on to the next analyzer or namespace.
TakeInsights ==
    /\ analyzer # None
    /\ analyzer' = None
    /\ found' = {}
    /\ UNCHANGED allButInsights

NextInsights ==
    \/ /\ analyzer = None
       /\ \E name \in Analyzers : \E namespace \in {"default", "prod"} :
             \E hits \in SUBSET (Emitters[name] \X Objects) : Analyze(name, namespace, hits)
    \/ TakeInsights

InitInsights ==
    /\ InsightsIdle /\ LaterIdle
    /\ CoreIdle /\ ReporterIdle /\ MuxIdle /\ ValidatorIdle /\ CodecIdle /\ UploadIdle

SpecInsights == InitInsights /\ [][NextInsights]_vars

(***************************************************************************)
(* Claims about analyzers and fingerprints.                                *)
(***************************************************************************)

\* The first 16 hex characters of SHA-256 of "analyzer:kind:namespace:name",
\* of the insight's own fields.
FingerprintOfFields(insight) ==
    [hexChars |-> 16,
     sha256Of |-> insight.Analyzer \o ":" \o insight.TargetKind \o ":"
                    \o insight.TargetNS \o ":" \o insight.TargetName]

\* C20: the Fingerprint of every insight an analyzer returned is
\* MakeFingerprint of the insight's own Analyzer, TargetKind, TargetNS and
\* TargetName: the first 16 hex characters of the SHA-256 of
\* "analyzer:kind:namespace:name".
C20_FingerprintOfOwnFields ==
    \A insight \in found : insight.Fingerprint = FingerprintOfFields(insight)

\* The same for every analyzer but resource_pressure, which hashes
\* "resource_pressure_mem", "_disk" or "_pid" under the Analyzer
\* "resource_pressure".
FingerprintOfOwnFieldsElsewhere ==
    analyzer # "resource_pressure" => C20_FingerprintOfOwnFields

(***************************************************************************)
(*                     NONCE STORE, CALLED DIRECTLY                        *)
(*                                                                         *)
(* NonceStore.Add called by any goroutine on a store made by               *)
(* NewNonceStore(MaxTimestampAge * 2).  The store is the verifier's        *)
(* (nonces, lastGC); last holds what the call returned and acceptLog the   *)
(* times at which Add returned true for each nonce.                        *)
(***************************************************************************)

\* The clock runs over MaxHalfTTLs halves of the TTL.
MaxHalfTTLs == 3

\* The instants at which Add is called: the multiples of half the TTL and one
\* tick before and after each of them.
StoreInstants ==
    { t \in { k * (ttl \div 2) + e : k \in 0..MaxHalfTTLs, e \in {-1, 0, 1} } : t >= 0 }

\* ns.Add(nonce): the whole method runs under ns.mu.
Add(nonce) ==
    LET added == NonceStoreAdd(nonces, lastGC, nonce, clock)
    IN  /\ last = NoResult
        /\ last' = [NoResult EXCEPT !.stage = "add", !.valid = added.ok, !.nonce = nonce]
        /\ nonces' = added.nonces
        /\ lastGC' = added.lastGC
        /\ acceptLog' =
              IF added.ok
              THEN [acceptLog EXCEPT ![nonce] = Append(@, [at |-> clock, timestamp |-> 0])]
              ELSE acceptLog
        /\ UNCHANGED <<clock, rejectLog, auditVars, remediationVars, otherVars>>

\* Time passes between two calls of Add.
StoreClock ==
    /\ last = NoResult
    /\ \E t \in StoreInstants : t > clock /\ clock' = t
    /\ UNCHANGED <<nonces, lastGC, last, acceptLog, rejectLog, auditVars, remediationVars, otherVars>>

NextNonceStore ==
    \/ \E nonce \in NonceNames : Add(nonce)
    \/ TakeResult
    \/ StoreClock

\* NewNonceStore(ttl): an empty map, lastGC: time.Now().
InitNonceStore == VerifierIdle /\ AuditIdle /\ RemediationUnused /\ OthersIdle

SpecNonceStore == InitNonceStore /\ [][NextNonceStore]_vars

(***************************************************************************)
(* Claims about the nonce store.                                           *)
(***************************************************************************)

\* C21 (nonce expiry): an Add of a nonce whose previous accepted Add happened
\* more than the TTL (60 s) ago returns true again: the nonce is not reported
\* as a replay.
C21_ExpiredNonceAddedAgain ==
    \A n \in NonceNames :
        (/\ last.stage = "add"
         /\ last.nonce = n
         /\ PriorAccept(n) # NoTime
         /\ clock - PriorAccept(n) > NonceTTL)
        => last.valid

\* What the code guarantees instead: the Add returns true again when more than
\* the TTL has passed since the previous accepted Add and also since the last
\* garbage collection that preceded the call.
ExpiredAndCollectedAddedAgain ==
    \A n \in NonceNames :
        (/\ last.stage = "add"
         /\ last.nonce = n
         /\ ~last.valid
         /\ PriorAccept(n) # NoTime
         /\ clock - PriorAccept(n) > NonceTTL)
        => lastGC - PriorAccept(n) <= NonceTTL /\ clock - lastGC <= NonceTTL

(***************************************************************************)
(*                          INSIGHT ENGINE                                 *)
(*                                                                         *)
(* Engine.Analyze: a sweep over the namespaces the API server lists, every *)
(* built-in analyzer on every namespace that is not excluded.  The cluster *)
(* snapshot is the set of conditions the analyzers find during the sweep.  *)
(***************************************************************************)

\* The number of namespaces that are not excluded.
MaxNamespaces == 2

\* The number of Analyze calls of analyzers that fail in a sweep.
MaxFailures == 1

\* NewEngine: the built-in analyzers, in the order they are run.
EngineAnalyzers ==
    <<"stale_pods", "stuck_terminating", "evicted_pods", "stale_pv_affinity",
      "missing_probes", "unready_workloads", "crashlooping", "resource_pressure",
      "image_pull_issues", "missing_limits">>

\* NewEngine(excludeNamespaces)
excludeNamespaces == {"kube-system"}

Namespaces == <<"default", "prod", "dev">>

\* What Namespaces().List returns: the excluded namespace, then the others.
NamespaceLists ==
    { <<"kube-system">> \o SubSeq(Namespaces, 1, n) : n \in 0..MaxNamespaces }

Condition(name, e, namespace, object, severity) ==
    [analyzer |-> name, e |-> e, ns |-> namespace, object |-> object, severity |-> severity]

\* The conditions a cluster may show, in the order the API server lists the
\* objects: a node under memory and PID pressure, and in the namespaces a
\* stale pod, a pod stuck terminating and a deployment that is not ready.
Conditions ==
    <<Condition("resource_pressure", Emits("resource_pressure_mem", "Node", FALSE), "", "a", "action"),
      Condition("resource_pressure", Emits("resource_pressure_pid", "Node", FALSE), "", "a", "warning"),
      Condition("stale_pods", Emits("stale_pods", "Pod", TRUE), "default", "a", "suggestion"),
      Condition("stuck_terminating", Emits("stuck_terminating", "Pod", TRUE), "prod", "a", "action"),
      Condition("unready_workloads", Emits("unready_workloads", "Deployment", TRUE), "default", "b", "warning")>>

\* analyzer.Analyze(ctx, clientset, ns.Name) when it returns no error: an
\* insight for each condition the analyzer looks for, of the objects of the
\* namespace or, for the nodes, of the cluster whatever the namespace.
AnalyzerInsights(name, namespace) ==
    LET Seen(c) == /\ c \in snapshot
                   /\ c.analyzer = name
                   /\ c.e.namespaced => c.ns = namespace
        seen == SelectSeq(Conditions, Seen)
    IN  [i \in DOMAIN seen |->
            [Severity |-> seen[i].severity]
            @@ ClusterInsight(name, seen[i].e, namespace, seen[i].object)]

\* var severityOrder, and the 9 of an unknown severity.
severityOrder(severity) ==
    CASE severity = "action" -> 0
      [] severity = "warning" -> 1
      [] severity = "suggestion" -> 2
      [] severity = "info" -> 3
      [] OTHER -> 9

\* sortInsights: sort.Slice by severityOrder.  Up to twelve elements
\* sort.Slice is an insertion sort, which keeps the order of equal elements.
sortInsights(insights) ==
    LET Of(rank) == LET Has(x) == severityOrder(x.Severity) = rank
                    IN  SelectSeq(insights, Has)
    IN  Of(0) \o Of(1) \o Of(2) \o Of(3) \o Of(9)

\* The next analyzer, or the first analyzer on the next namespace.
Advance(p) ==
    IF p[2] < Len(EngineAnalyzers) THEN <<p[1], p[2] + 1>> ELSE <<p[1] + 1, 1>>

\* A failed analyzer ends the inner loop: the namespace is left.
AfterFailure_LeavesNamespace(p) == <<p[1] + 1, 1>>

\* if err != nil { e.log.Warn("analyzer failed", ...); continue }
AfterFailure(p) == Advance(p)

\* Engine.Analyze is called; when the namespaces cannot be listed it logs the
\* error and returns nil.
EngineAnalyze(listOK) ==
    /\ epc = "idle"
    /\ epc' = IF listOK THEN "loop" ELSE "nolist"
    /\ pos' = <<1, 1>>
    /\ allInsights' = <<>>
    /\ runs' = {}
    /\ UNCHANGED <<snapshot, nsItems, allButEngine>>

\* The outer loop passes over an excluded namespace.
SkipNamespace ==
    /\ epc = "loop"
    /\ pos[1] <= Len(nsItems)
    /\ nsItems[pos[1]] \in excludeNamespaces
    /\ pos' = <<pos[1] + 1, 1>>
    /\ UNCHANGED <<snapshot, nsItems, epc, allInsights, runs, allButEngine>>

\* One pass of the inner loop: the analyzer runs on the namespace and either
\* fails, which is logged, or returns insights, which are appended.
RunAnalyzer(fails) ==
    /\ epc = "loop"
    /\ pos[1] <= Len(nsItems)
    /\ nsItems[pos[1]] \notin excludeNamespaces
    /\ fails => Cardinality({r \in runs : r[3]}) < MaxFailures
    /\ LET name      == EngineAnalyzers[pos[2]]
           namespace == nsItems[pos[1]]
       IN  /\ runs' = runs \cup {<<name, namespace, fails>>}
           /\ allInsights' = IF fails THEN allInsights
                             ELSE allInsights \o AnalyzerInsights(name, namespace)
           /\ pos' = IF fails THEN AfterFailure(pos) ELSE Advance(pos)
    /\ UNCHANGED <<snapshot, nsItems, epc, allButEngine>>

\* The loops are through: the insights are sorted and returned.
EngineReturn ==
    /\ epc = "loop"
    /\ pos[1] > Len(nsItems)
    /\ allInsights' = sortInsights(allInsights)
    /\ epc' = "returned"
    /\ UNCHANGED <<snapshot, nsItems, pos, runs, allButEngine>>

\* The caller has taken what the sweep returned.
TakeSweep ==
    /\ epc \in {"returned", "nolist"}
    /\ epc' = "idle"
    /\ pos' = <<1, 1>>
    /\ allInsights' = <<>>
    /\ runs' = {}
    /\ UNCHANGED <<snapshot, nsItems, allButEngine>>

NextEngine ==
    \/ \E listOK \in BOOLEAN : EngineAnalyze(listOK)
    \/ SkipNamespace
    \/ \E fails \in BOOLEAN : RunAnalyzer(fails)
    \/ EngineReturn
    \/ TakeSweep

\* A new engine, and a cluster with some namespaces and some conditions.
InitEngine ==
    /\ snapshot \in SUBSET {Conditions[i] : i \in DOMAIN Conditions}
    /\ nsItems \in NamespaceLists
    /\ epc = "idle"
    /\ pos = <<1, 1>>
    /\ allInsights = <<>>
    /\ runs = {}
    /\ CoreIdle /\ ReporterIdle /\ MuxIdle /\ ValidatorIdle /\ CodecIdle /\ UploadIdle
    /\ InsightsIdle /\ ExecutorIdle /\ ConcurrentIdle

SpecEngine == InitEngine /\ [][NextEngine]_vars

(***************************************************************************)
(* Claims about the insight engine.                                        *)
(***************************************************************************)

\* C24: the list Engine.Analyze returns holds no two insights with the same
\* fingerprint, whatever the snapshot and the number of namespaces that are
\* not excluded, the insights on nodes included.
C24_NoDuplicateFingerprints ==
    epc = "returned" =>
        \A i, j \in DOMAIN allInsights :
            i # j => allInsights[i].Fingerprint # allInsights[j].Fingerprint

\* What holds instead: two insights of the list with the same fingerprint are
\* insights on a node (which has no namespace), made by resource_pressure.
DuplicatesOnlyOfNodes ==
    epc = "returned" =>
        \A i, j \in DOMAIN allInsights :
            (i # j /\ allInsights[i].Fingerprint = allInsights[j].Fingerprint)
            => (allInsights[i].TargetKind = "Node" /\ allInsights[i].TargetNS = "")

\* The Analyze calls of the sweep that returned an error.
FailedRuns == {<<r[1], r[2]>> : r \in {x \in runs : x[3]}}

\* The namespaces of the list that are not excluded.
SweptNamespaces ==
    {nsItems[i] : i \in DOMAIN nsItems} \ {"kube-system"}

\* The (analyzer, namespace) pairs of a sweep.
SweepPairs ==
    {EngineAnalyzers[j] : j \in DOMAIN EngineAnalyzers} \X SweptNamespaces

\* How often insight x is among the insights of the pairs.
TimesFound(x, pairs) ==
    Cardinality({<<p, i>> \in pairs \X (1..Len(Conditions)) :
                    /\ i \in DOMAIN AnalyzerInsights(p[1], p[2])
                    /\ AnalyzerInsights(p[1], p[2])[i] = x})

TimesReturned(x) == Cardinality({i \in DOMAIN allInsights : allInsights[i] = x})

\* C25 (analyzer failure isolation): when analyzers return an error for some
\* namespaces during a sweep, Engine.Analyze still runs every analyzer on
\* every namespace and returns the insights of every other (analyzer,
\* namespace) pair, each as often as it was found; only the insights of the
\* failing analyzer for that namespace are missing.
C25_FailureIsolated ==
    epc = "returned" =>
        /\ {<<r[1], r[2]>> : r \in runs} = SweepPairs
        /\ \A p \in SweepPairs \ FailedRuns : \A i \in DOMAIN AnalyzerInsights(p[1], p[2]) :
              LET x == AnalyzerInsights(p[1], p[2])[i]
              IN  TimesReturned(x) = TimesFound(x, SweepPairs \ FailedRuns)
        /\ \A i \in DOMAIN allInsights :
              TimesFound(allInsights[i], SweepPairs \ FailedRuns) > 0

\* C25 witness: a sweep of two namespaces has returned in which an analyzer
\* that would have found something failed on one namespace; an analyzer that
\* ran later on that namespace and the same analyzer on the other namespace
\* have their insights in the list.
C25_Witness ==
    /\ epc = "returned"
    /\ <<"stale_pods", "default", TRUE>> \in runs
    /\ \E c \in snapshot : c.analyzer = "stale_pods"
    /\ \E i \in DOMAIN allInsights :
          allInsights[i].Analyzer = "unready_workloads" /\ allInsights[i].TargetNS = "default"
    /\ \E i \in DOMAIN allInsights :
          allInsights[i].Analyzer = "stuck_terminating" /\ allInsights[i].TargetNS = "prod"
    /\ \A i \in DOMAIN allInsights : allInsights[i].Analyzer # "stale_pods"

(***************************************************************************)
(*                        COMMAND EXECUTOR: scale                          *)
(*                                                                         *)
(* Execute of a command with action "scale".  The replicas parameter is    *)
(* what json.Unmarshal put into Parameters: nothing, a string, a bool, or  *)
(* a float64.  A float64 is counted in halves, so that whole and           *)
(* fractional values can be told apart, and int32 has IntBits bits.        *)
(***************************************************************************)

\* The width of int32 in the model.
IntBits == 4

MaxInt32 == 2^(IntBits - 1) - 1

MinInt32 == -(2^(IntBits - 1))

\* The float64 values of the parameter, in halves: from below the least int32
\* to beyond twice the greatest.
FloatHalves == (4 * MinInt32 - 2)..(4 * MaxInt32 + 6)

\* The values Parameters["replicas"] may hold.
ReplicasParams ==
    {NoParam, [kind |-> "string", halves |-> 0], [kind |-> "bool", halves |-> 0]}
    \cup {[kind |-> "number", halves |-> h] : h \in FloatHalves}

\* A float64 with its fraction discarded (truncation towards zero).
Truncated(halves) == IF halves >= 0 THEN halves \div 2 ELSE -((-halves) \div 2)

\* int32(replicasFloat): the fraction is discarded; when the result is not
\* an int32 the value is implementation-dependent: the "integer indefinite"
\* value, the nearest int32, or the low bits of the wider conversion.
ToInt32(halves) ==
    LET v == Truncated(halves)
    IN  IF MinInt32 <= v /\ v <= MaxInt32 THEN {v}
        ELSE {MinInt32,
              IF v < 0 THEN MinInt32 ELSE MaxInt32,
              ((v - MinInt32) % 2^IntBits) + MinInt32}

\* Executor.scale, as called by Execute.  getOK and updateOK: the API server
\* answers GetScale and UpdateScale without an error.
ExecuteScale(param, new, getOK, updateOK) ==
    LET Failed(msg) == [Success |-> FALSE, Message |-> msg, new_replicas |-> 0]
        rejected ==
            IF param.kind = "missing" THEN "missing 'replicas' parameter"
            ELSE IF param.kind # "number" THEN "invalid replicas value"
            ELSE IF new < 0 THEN "invalid replicas value"
            ELSE None
    IN  /\ cmdParams' = param
        /\ param.kind = "number" => new \in ToInt32(param.halves)
        /\ IF rejected # None
           THEN /\ cmdResult' = Failed(rejected)
                /\ scaleCalls' = <<>>
                /\ UNCHANGED replicas
           ELSE IF ~getOK
           THEN /\ cmdResult' = Failed("GetScale failed")
                /\ scaleCalls' = <<"GetScale">>
                /\ UNCHANGED replicas
           ELSE IF ~updateOK
           THEN /\ cmdResult' = Failed("UpdateScale failed")
                /\ scaleCalls' = <<"GetScale", "UpdateScale">>
                /\ UNCHANGED replicas
           ELSE /\ cmdResult' = [Success |-> TRUE, Message |-> "scaled",
                                 new_replicas |-> new]
                /\ scaleCalls' = <<"GetScale", "UpdateScale">>
                /\ replicas' = new
        /\ UNCHANGED allButExecutor

\* The caller has taken the result.
TakeCommandResult ==
    /\ cmdResult # NoCommandResult
    /\ cmdResult' = NoCommandResult
    /\ cmdParams' = NoParam
    /\ scaleCalls' = <<>>
    /\ UNCHANGED <<replicas, allButExecutor>>

NextExecutor ==
    \/ /\ cmdResult = NoCommandResult
       /\ \E param \in ReplicasParams : \E new \in MinInt32..MaxInt32 :
             \E getOK, updateOK \in BOOLEAN : ExecuteScale(param, new, getOK, updateOK)
    \/ TakeCommandResult

InitExecutor ==
    /\ ExecutorIdle
    /\ EngineIdle
    /\ ConcurrentIdle
    /\ CoreIdle /\ ReporterIdle /\ MuxIdle /\ ValidatorIdle /\ CodecIdle /\ UploadIdle
    /\ InsightsIdle

SpecExecutor == InitExecutor /\ [][NextExecutor]_vars

(***************************************************************************)
(* Claims about the command executor.                                      *)
(***************************************************************************)

\* The parameter is an integer >= 0 that an int32 holds.
ValidReplicas(param) ==
    /\ param.kind = "number"
    /\ param.halves % 2 = 0
    /\ param.halves >= 0
    /\ param.halves \div 2 <= MaxInt32

\* C26: scale requires an integer replicas parameter >= 0: when replicas is
\* missing, not a number, fractional, negative or outside the range of int32,
\* Execute returns success = false and neither reads nor writes the
\* deployment's scale; the replica count written is never another value than
\* the one requested.
C26_ScaleRequiresInteger ==
    cmdResult # NoCommandResult =>
        /\ ~ValidReplicas(cmdParams) => (~cmdResult.Success /\ scaleCalls = <<>>)
        /\ cmdResult.Success => 2 * replicas = cmdParams.halves

\* What holds instead: a parameter that is missing, not a number, or a number
\* of -1 or less whose whole part an int32 holds is rejected before any call;
\* a number whose whole part an int32 holds is scaled to that whole part (a
\* fraction between -1 and 0 to 0).
ScaleRejectsNegativeWholePart ==
    cmdResult # NoCommandResult =>
        /\ (\/ cmdParams.kind # "number"
            \/ (cmdParams.halves <= -2 /\ Truncated(cmdParams.halves) >= MinInt32))
           => (~cmdResult.Success /\ scaleCalls = <<>>)
        /\ (/\ cmdResult.Success
            /\ MinInt32 <= Truncated(cmdParams.halves)
            /\ Truncated(cmdParams.halves) <= MaxInt32)
           => replicas = Truncated(cmdParams.halves)

(***************************************************************************)
(*                  CONCURRENT REMEDIATE CALLS                             *)
(*                                                                         *)
(* Goroutines call Remediate at the same time on one CircuitBreaker and    *)
(* one cluster. Each method of the breaker holds cb.mu from its first to   *)
(* its last statement and is one step; nothing is held between IsOpen,     *)
(* IsOnCooldown, the Delete call of execute and Record, so the steps of    *)
(* the goroutines interleave there.                                        *)
(***************************************************************************)

\* Longest list of insights a Remediate call is handed.
MaxGoList == 2

\* The insights the concurrent calls are handed: two stale pods and an
\* insight that is not marked auto-remediable.
GoInsights ==
    {Insight("fp1", TRUE, "delete_pod", "Pod", "db"),
     Insight("fp2", TRUE, "delete_pod", "Pod", "api"),
     Insight("fp5", FALSE, "force_delete_pod", "Pod", "api")}

GoLists == UNION {[1..n -> GoInsights] : n \in 0..MaxGoList}

\* The loop goes to its next insight; the call returns when there is none.
GoContinue(g) ==
    /\ glist' = [glist EXCEPT ![g] = Tail(@)]
    /\ gpc' = [gpc EXCEPT ![g] = IF Len(glist[g]) = 1 THEN "idle" ELSE "loop"]

\* Goroutine g calls Remediate with a list of insights.
GoRemediate(g, list) ==
    /\ gpc[g] = "idle"
    /\ calls < MaxCalls
    /\ visits + Len(list) <= MaxVisits
    /\ calls' = calls + 1
    /\ visits' = visits + Len(list)
    /\ glist' = [glist EXCEPT ![g] = list]
    /\ gpc' = [gpc EXCEPT ![g] = IF list = <<>> THEN "idle" ELSE "loop"]
    /\ UNCHANGED <<wallTime, maxPerHour, cooldown, recentTimes, resourceCooldowns,
                   recordLog, obs, dryRun, cluster, rpc, left, cur, skipped, results,
                   warned, apiLog, startedAt, gres, allButConcurrent>>

\* The head of the loop: the two filters, then circuitBreaker.IsOpen(), which
\* prunes the window; the call breaks out of the loop when the circuit is open.
GoIsOpen(g) ==
    LET insight == Head(glist[g])
        pruned  == pruneOld(recentTimes, wallTime)
    IN  /\ gpc[g] = "loop"
        /\ IF ~Eligible(insight)
           THEN GoContinue(g) /\ UNCHANGED recentTimes
           ELSE /\ recentTimes' = pruned
                /\ glist' = [glist EXCEPT ![g] = IF CircuitOpen(pruned) THEN <<>> ELSE @]
                /\ gpc' = [gpc EXCEPT ![g] = IF CircuitOpen(pruned) THEN "idle" ELSE "closed"]
        /\ UNCHANGED <<wallTime, maxPerHour, cooldown, resourceCooldowns,
                       recordLog, obs, remediatorVars, gres, allButConcurrent>>

\* circuitBreaker.IsOnCooldown(kind, ns, name): the loop continues with the
\* next insight when the resource is on cooldown.
GoIsOnCooldown(g) ==
    LET insight == Head(glist[g])
    IN  /\ gpc[g] = "closed"
        /\ IF OnCooldown(insight.TargetKind, insight.TargetNS, insight.TargetName, wallTime)
           THEN GoContinue(g)
           ELSE gpc' = [gpc EXCEPT ![g] = "execute"] /\ UNCHANGED glist
        /\ UNCHANGED <<wallTime, maxPerHour, cooldown, recentTimes, resourceCooldowns,
                       recordLog, obs, remediatorVars, gres, allButConcurrent>>

\* r.execute(ctx, action, insight): the Delete call on the API server.
GoExecute(g, apiFails) ==
    LET ex == execute(Head(glist[g]), apiFails)
    IN  /\ gpc[g] = "execute"
        /\ cluster' = ex.cluster
        /\ apiLog' = apiLog \o [i \in DOMAIN ex.api |->
                                  [at |-> wallTime, ok |-> ex.result.Success]]
        /\ gres' = [gres EXCEPT ![g] = [Success |-> ex.result.Success]]
        /\ gpc' = [gpc EXCEPT ![g] = "executed"]
        /\ UNCHANGED <<wallTime, maxPerHour, cooldown, recentTimes, resourceCooldowns,
                       recordLog, obs, dryRun, rpc, left, cur, skipped, results, warned,
                       calls, visits, startedAt, glist, allButConcurrent>>

\* if result.Success && !r.dryRun { r.circuitBreaker.Record(...) }, then the
\* next insight.
GoRecord(g) ==
    LET insight == Head(glist[g])
    IN  /\ gpc[g] = "executed"
        /\ IF Recorded(gres[g])
           THEN /\ recentTimes' = Append(recentTimes, wallTime)
                /\ resourceCooldowns' =
                       CooldownsAfterRecord(insight.TargetKind, insight.TargetNS,
                                            insight.TargetName, wallTime)
                /\ recordLog' = Append(recordLog,
                       [triple |-> <<insight.TargetKind, insight.TargetNS, insight.TargetName>>,
                        at |-> wallTime])
           ELSE UNCHANGED <<recentTimes, resourceCooldowns, recordLog>>
        /\ GoContinue(g)
        /\ gres' = [gres EXCEPT ![g] = NoOutcome]
        /\ UNCHANGED <<wallTime, maxPerHour, cooldown, obs, remediatorVars, allButConcurrent>>

\* The controller that owns a deleted pod creates it again under its name (a
\* StatefulSet does), and the analyzers report it again.
Recreate ==
    /\ cluster # AllObjects
    /\ cluster' = AllObjects
    /\ UNCHANGED <<wallTime, maxPerHour, cooldown, recentTimes, resourceCooldowns,
                   recordLog, obs, dryRun, rpc, left, cur, skipped, results, warned,
                   apiLog, calls, visits, startedAt, concurrentVars, allButConcurrent>>

NextConcurrent ==
    \/ \E g \in Goroutines, list \in GoLists : GoRemediate(g, list)
    \/ \E g \in Goroutines : GoIsOpen(g)
    \/ \E g \in Goroutines : GoIsOnCooldown(g)
    \/ \E g \in Goroutines, apiFails \in BOOLEAN : GoExecute(g, apiFails)
    \/ \E g \in Goroutines : GoRecord(g)
    \/ Recreate
    \/ Tick

\* A new breaker with some limit and a cooldown of one tick or of an hour,
\* shared by remediators with dry-run disabled.
InitConcurrent ==
    /\ RemediationIdle
    /\ maxPerHour \in 0..MaxRate
    /\ cooldown \in Cooldowns
    /\ dryRun = FALSE
    /\ ConcurrentIdle
    /\ EngineIdle /\ ExecutorIdle
    /\ VerifierIdle /\ AuditIdle
    /\ ReporterIdle /\ MuxIdle /\ ValidatorIdle /\ CodecIdle /\ UploadIdle /\ InsightsIdle

SpecConcurrent == InitConcurrent /\ [][NextConcurrent]_vars

\* The successful remediations the breaker recorded in the one-hour window
\* that opens with record i.
RecordedInWindowFrom(i) ==
    {j \in DOMAIN recordLog :
        /\ recordLog[j].at >= recordLog[i].at
        /\ recordLog[j].at - recordLog[i].at <= Hour}

\* No one-hour window holds more than maxPerHour recorded remediations.
RateLimitKept ==
    \A i \in DOMAIN recordLog : Cardinality(RecordedInWindowFrom(i)) <= maxPerHour

\* No resource has two recorded remediations less than the cooldown apart.
CooldownKept ==
    \A i, j \in DOMAIN recordLog :
        (i < j /\ recordLog[i].triple = recordLog[j].triple)
        => recordLog[j].at - recordLog[i].at >= cooldown

\* C30 (concurrent Remediate calls): whatever the interleaving of Remediate
\* calls that share one CircuitBreaker, dry-run disabled, no one-hour window
\* holds more than maxPerHour recorded successful remediations, and no
\* resource is successfully remediated twice within its cooldown.
C30_ConcurrentWithinLimits == RateLimitKept /\ CooldownKept

====
